---- MODULE Spec2Model ----
(***************************************************************************)
(* WinGamingDiag: the result model (models/__init__.py), the analysis      *)
(* engine (core/analysis.py) and the orchestrator (core/agent.py).         *)
(*                                                                         *)
(* The specifications of the module:                                        *)
(*   SpecResult    DiagnosticResult: construction, later changes of its    *)
(*                 issues list, the derived health_score;                  *)
(*   SpecAnalysis  analyze_for_issues as a pure function of a snapshot and *)
(*                 of the wall clock it reads;                             *)
(*   Spec          DiagnosticAgent: construction and run_full_diagnostic.  *)
(*   FairSpec      Spec with the agent's own steps taken when enabled.     *)
(*   SpecWmi       WMIHelper.query (utils/wmi_helper.py): the retry loop.  *)
(*   SpecRules     CustomRuleEngine (core/rules.py): loading, saving and   *)
(*                 editing the rule list.                                  *)
(*   SpecDrivers   DriverCompatibilityChecker.check_all_drivers            *)
(*                 (collectors/drivers.py), one driver per step.           *)
(*   SpecLaunchers GameLauncherDetector.detect_all_launchers               *)
(*                 (collectors/launchers.py).                              *)
(*   SpecProcesses ProcessCollector.check_processes                        *)
(*                 (collectors/processes.py).                              *)
(*   SpecRuns      several run_full_diagnostic calls on one                *)
(*                 DiagnosticAgent, each call one step (core/agent.py).    *)
(*                                                                         *)
(* Conventions.  Optional[X] is a sequence of length 0 (None) or 1.  An    *)
(* Optional number is an integer, None being the definition NoneInt.       *)
(* Python strings that the code slices, lower-cases or searches are        *)
(* sequences of one-character strings.  Floats are integers; a percentage  *)
(* comparison  a / b * 100 > p  is the exact  a * 100 > p * b.             *)
(***************************************************************************)
EXTENDS Integers, Sequences, FiniteSets, TLC

VARIABLES
    dr,         \* SpecResult: the DiagnosticResult object
    dr_state,   \* SpecResult: "none" before construction, "built" after
    snap,       \* SpecAnalysis: the SystemSnapshot under analysis
    now,        \* the day datetime.now() falls on
    calls,      \* SpecAnalysis: the calls of analyze_for_issues made so far
    pc,             \* Spec: where the caller and run_full_diagnostic stand
    logging_bound,  \* Spec: whether the name logging is bound in core/agent.py
    wmi_available,  \* Spec: WMIHelper.is_available
    quick_mode,     \* Spec: the quick_mode argument handed to the constructor
    self_errors,    \* Spec: DiagnosticAgent.errors
    locals,         \* Spec: the six local results of run_full_diagnostic
    invoked,        \* Spec: history, the collectors invoked so far, in order
    faulted,        \* Spec: history, the collectors that raised or failed
    produced,       \* Spec: history, what each collector returned
    exception,      \* Spec: the exception that left the constructor or the run
    worker,         \* Spec: the hardware worker process
    tmp_file,       \* Spec: the worker's output file
    hw_step,        \* Spec: history of the hardware step
    self_snapshot,  \* Spec: DiagnosticAgent.snapshot
    self_issues,    \* Spec: DiagnosticAgent.issues
    run_result,     \* Spec: the DiagnosticResult run_full_diagnostic returns
    issue_ids,      \* Spec: the ids of the Issue objects in self.issues, by position
    reanalysis,     \* Spec: what a second _analyze_for_issues() on the agent returned
    wmi_self,       \* SpecWmi: the WMIHelper object
    wmi_call,       \* SpecWmi: the call of query in progress, its locals and its outcome
    self_rules,     \* SpecRules: CustomRuleEngine.rules
    rules_file,     \* SpecRules: the content of custom_rules.json
    example_rules,  \* SpecRules: the rule objects of the class attribute EXAMPLE_RULES
    last_call,      \* SpecRules: history, the last call on the engine and what it returned
    drivers,        \* SpecDrivers: the DriverInfo list _collect_driver_info returned
    driver_check,   \* SpecDrivers: check_all_drivers in progress: position, result, errors
    machine,        \* SpecLaunchers: per launcher type, what is installed and running
    detection,      \* SpecLaunchers: what detect_all_launchers returned, and the errors
    wmi_processes,  \* SpecProcesses: whether WMI is available, and the process list it returns
    checked,        \* SpecProcesses: what check_processes returned
    agent_runs      \* SpecRuns: one DiagnosticAgent over several runs: its lists and results

resVars == <<dr, dr_state>>

anaVars == <<snap, now, calls>>

agentVars == <<pc, logging_bound, wmi_available, quick_mode, self_errors, locals, invoked, faulted, produced,
               exception, worker, tmp_file, hw_step, self_snapshot, self_issues, run_result, issue_ids, reanalysis>>

ruleVars == <<self_rules, rules_file, example_rules, last_call>>

drvVars == <<drivers, driver_check>>

lchVars == <<machine, detection>>

procVars == <<wmi_processes, checked>>

utilVars == <<wmi_self, wmi_call, ruleVars, drvVars, lchVars, procVars, agent_runs>>

vars == <<dr, dr_state, snap, now, calls, pc, logging_bound, wmi_available, quick_mode, self_errors, locals,
          invoked, faulted, produced, exception, worker, tmp_file, hw_step, self_snapshot, self_issues, run_result,
          issue_ids, reanalysis, utilVars>>

(***************************************************************************)
(* Bounds of the model                                                     *)
(***************************************************************************)
MaxIssues == 5          \* longest issues list of a DiagnosticResult
MaxInitIssues == 2      \* longest issues list handed to the constructor
MaxCountArg == 1        \* largest *_count argument handed to the constructor
MaxNonDefault == 2      \* most snapshot fields away from their defaults
MaxCalls == 2           \* most calls of analyze_for_issues on one snapshot
MaxTicks == 1           \* most midnights that pass during a behaviour
MaxLater == 2           \* most clock instants between two analyses by the agent
MaxRetries == 3         \* largest max_retries a WMIHelper is constructed with
MaxQueries == 2         \* most calls of query on one WMIHelper
MaxRuleCalls == 3       \* most calls on one CustomRuleEngine after its construction
MaxDrivers == 2         \* most drivers _collect_driver_info returns
MaxInstalled == 4       \* most launchers installed on the machine
MaxProcesses == 3       \* most processes in the list WMI returns
MaxRuns == 3            \* most run_full_diagnostic calls on one agent

\* the day the behaviour starts on
StartDay == 200

(***************************************************************************)
(* Python helpers                                                          *)
(***************************************************************************)
NoneInt == 0 - 1

Truthy(x) == x # NoneInt /\ x # 0

Max(a, b) == IF a >= b THEN a ELSE b

Min(a, b) == IF a <= b THEN a ELSE b

\* s[:k]
Truncate(s, k) == SubSeq(s, 1, Min(k, Len(s)))

\* needle in s
Contains(s, needle) == \E i \in 1..(Len(s) - Len(needle) + 1) : SubSeq(s, i, i + Len(needle) - 1) = needle

UpperToLower == [c \in {"A","B","C","D","E","F","G","H","I","J","K","L","M","N","O","P","Q","R","S","T","U","V","W","X","Y","Z"} |->
    CASE c = "A" -> "a" [] c = "B" -> "b" [] c = "C" -> "c" [] c = "D" -> "d" [] c = "E" -> "e"
      [] c = "F" -> "f" [] c = "G" -> "g" [] c = "H" -> "h" [] c = "I" -> "i" [] c = "J" -> "j"
      [] c = "K" -> "k" [] c = "L" -> "l" [] c = "M" -> "m" [] c = "N" -> "n" [] c = "O" -> "o"
      [] c = "P" -> "p" [] c = "Q" -> "q" [] c = "R" -> "r" [] c = "S" -> "s" [] c = "T" -> "t"
      [] c = "U" -> "u" [] c = "V" -> "v" [] c = "W" -> "w" [] c = "X" -> "x" [] c = "Y" -> "y"
      [] OTHER -> "z"]

\* s.lower()
Lower(s) == [i \in 1..Len(s) |-> IF s[i] \in DOMAIN UpperToLower THEN UpperToLower[s[i]] ELSE s[i]]

RECURSIVE Concat(_)
\* the concatenation of a sequence of sequences
Concat(ss) == IF ss = <<>> THEN <<>> ELSE Head(ss) \o Concat(Tail(ss))

BoundedSeq(S, n) == UNION {[1..k -> S] : k \in 0..n}

(***************************************************************************)
(* models/__init__.py: IssueSeverity, Issue                                *)
(***************************************************************************)
IssueSeverity == {"low", "medium", "high", "critical"}

\* An Issue, reduced to what the result model and the ordering read.  A title
\* is <<text, string argument, integer argument>>, the f-string's parts.
Issue(title, severity) == [title |-> title, severity |-> severity]

Title(text) == <<text, <<>>, 0>>

TitleS(text, s) == <<text, s, 0>>

TitleN(text, n) == <<text, <<>>, n>>

(***************************************************************************)
(* models/__init__.py: DiagnosticResult                                    *)
(***************************************************************************)
RECURSIVE CountSeverity(_, _)
\* how many issues of the list have exactly this severity
CountSeverity(issues, sev) ==
    IF issues = <<>> THEN 0
    ELSE (IF Head(issues).severity = sev THEN 1 ELSE 0) + CountSeverity(Tail(issues), sev)

\* __post_init__, lines 321-330: each issue adds one to the count of its
\* severity (the else branch takes every severity that is none of the first
\* three), starting from the count arguments the constructor was given.
PostInitCounts(issues, cc, hc, mc, lc) ==
    [critical_count |-> cc + CountSeverity(issues, "critical"),
     high_count     |-> hc + CountSeverity(issues, "high"),
     medium_count   |-> mc + CountSeverity(issues, "medium"),
     low_count      |-> lc + (Len(issues) - CountSeverity(issues, "critical")
                          - CountSeverity(issues, "high") - CountSeverity(issues, "medium"))]

\* DiagnosticResult(snapshot, issues, critical_count=cc, ...): the dataclass
\* stores its arguments and runs __post_init__.  scan_id is the hash of the
\* snapshot's timestamp, kept as the pair it is computed from.
DiagnosticResult(snapshot_timestamp, issues, cc, hc, mc, lc) ==
    [issues  |-> issues,
     scan_id |-> <<"sha256", snapshot_timestamp>>,
     counts  |-> PostInitCounts(issues, cc, hc, mc, lc)]

\* health_score, lines 339-344 and weights.get(issue.severity, 0)
weights(sev) ==
    CASE sev = "critical" -> 25
      [] sev = "high"     -> 15
      [] sev = "medium"   -> 5
      [] sev = "low"      -> 1
      [] OTHER            -> 0

RECURSIVE total_penalty(_)
\* health_score, lines 346-349
total_penalty(issues) ==
    IF issues = <<>> THEN 0 ELSE weights(Head(issues).severity) + total_penalty(Tail(issues))

health_score_nofloor(result) ==
    IF result.issues = <<>> THEN 100 ELSE 100 - total_penalty(result.issues)

\* health_score, lines 332-351
health_score(result) ==
    IF result.issues = <<>> THEN 100 ELSE Max(0, 100 - total_penalty(result.issues))

(***************************************************************************)
(* Fact types read by the analysis: models/__init__.py and the collectors' *)
(* result classes, reduced to the fields the two analyses read.            *)
(***************************************************************************)
\* CPUInfo
CPUInfo(temp, virt) == [temperature_celsius |-> temp, virtualization_support |-> virt]

\* MemoryInfo
MemoryInfo(total, used, speed, type) == [total_gb |-> total, used_gb |-> used, speed_mhz |-> speed, type |-> type]

\* GPUInfo; driver_date is a day number, NoneInt, or BadDate for a string
\* that strptime(.., '%Y-%m-%d') rejects
GPUInfo(name, vram, version, date) == [name |-> name, vram_mb |-> vram, driver_version |-> version, driver_date |-> date]

BadDate == 0 - 2

\* StorageInfo
StorageInfo(model, type, total, used, free, system) == [model |-> model, type |-> type, total_gb |-> total, used_gb |-> used, free_gb |-> free, is_system_drive |-> system]

\* HardwareSnapshot
HardwareSnapshot(cpu, memory, gpus, storage) == [cpu |-> cpu, memory |-> memory, gpus |-> gpus, storage_devices |-> storage]

\* HardwareSnapshot(): every field at its default
EmptyHardwareSnapshot == HardwareSnapshot(<<>>, <<>>, <<>>, <<>>)

\* PrerequisiteInfo, PrerequisitesResult
PrerequisiteInfo(name, installed, critical) == [name |-> name, installed |-> installed, critical |-> critical]

PrerequisitesResult(items, game_mode) == [items |-> items, game_mode_enabled |-> game_mode]

\* ProcessIssue
ProcessIssue(name, pid) == [name |-> name, pid |-> pid]

\* BenchmarkResult: details holds 'error' or not, 'write_speed_mbps' or not
BenchmarkResult(name, error, has_write, write) == [name |-> name, error |-> error, has_write |-> has_write, write_speed_mbps |-> write]

\* BenchmarkSuite
BenchmarkSuite(results) == [results |-> results]

\* DriverInfo, DriverCompatibilityResult
DriverInfo(name, status) == [name |-> name, status |-> status]

DriverCompatibilityResult(critical, outdated, critical_issues, gpu_drivers) == [critical |-> critical, outdated |-> outdated, critical_issues |-> critical_issues, gpu_drivers |-> gpu_drivers]

\* DriverCompatibilityResult()
DefaultDriverResult == DriverCompatibilityResult(0, 0, <<>>, <<>>)

\* EventLogSummary: recent_crashes as the event ids of its entries,
\* gaming_related_events as their number
EventLogSummary(critical_count, recent_crashes, gaming_events, period) == [critical_count |-> critical_count, recent_crashes |-> recent_crashes, gaming_related_events |-> gaming_events, analysis_period_days |-> period]

\* EventLogSummary()
DefaultEventSummary == EventLogSummary(0, <<>>, 0, 7)

\* EventLogSummary.critical_errors
critical_errors(es) == es.critical_count

\* EventLogSummary.app_crashes
app_crashes(es) == Cardinality({i \in 1..Len(es.recent_crashes) : es.recent_crashes[i] = 1001})

\* LauncherInfo, GameLauncherResult
LauncherInfo(overlay, auto_start) == [overlay_enabled |-> overlay, auto_start |-> auto_start]

GameLauncherResult(installed, running, storage) == [installed_launchers |-> installed, running_launchers |-> running, storage_used_gb |-> storage]

\* GameLauncherResult()
DefaultLauncherResult == GameLauncherResult(<<>>, <<>>, 0)

\* NetworkDiagnosticsResult; gaming_servers as the avg_ms of its probes
NetworkDiagnosticsResult(connected, ctype, dns, servers, issues) == [is_connected |-> connected, connection_type |-> ctype, dns_latency_ms |-> dns, gaming_servers |-> servers, issues |-> issues]

\* NetworkDiagnosticsResult()
DefaultNetworkResult == NetworkDiagnosticsResult(FALSE, "unknown", NoneInt, <<>>, <<>>)

\* The attributes analyze_for_issues reads that SystemSnapshot does not
\* declare (models/__init__.py 271-295): they exist on a snapshot only when
\* a caller has set them on the instance.
ExtraAttrs == {"prerequisites_result", "process_issues", "benchmark_result"}

\* WindowsInfo: its four required fields; the feature flags are constants
\* in the code that fills it (core/agent.py 173-176)
WindowsInfo(version, build, edition, architecture) == [version |-> version, build |-> build, edition |-> edition, architecture |-> architecture]

\* SystemSnapshot.  attrs: the undeclared attributes set on the instance; the
\* three fields after it are read only when attrs holds their names.
SystemSnapshot(timestamp, hardware, windows, errors, event, driver, launcher, network, attrs, prereq, procs, bench) ==
    [timestamp |-> timestamp, hardware |-> hardware, windows |-> windows, errors_encountered |-> errors,
     event_summary |-> event, driver_result |-> driver, launcher_result |-> launcher, network_result |-> network,
     attrs |-> attrs, prerequisites_result |-> prereq, process_issues |-> procs, benchmark_result |-> bench]

(***************************************************************************)
(* Strings of the inputs                                                   *)
(***************************************************************************)
s_WD == <<"W", "D">>

s_EVO == <<"E", "V", "O">>

s_RTX == <<"R", "T", "X">>

s_DirectX == <<"D", "i", "r", "e", "c", "t", "X">>

s_VC == <<"V", "C", "+", "+">>

s_McAfee == <<"M", "c", "A", "f", "e", "e", ".", "e", "x", "e">>

s_Discord == <<"D", "i", "s", "c", "o", "r", "d", ".", "e", "x", "e">>

s_HighLatency == <<"H", "i", "g", "h", " ", "l", "a", "t", "e", "n", "c", "y">>

s_PacketLoss == <<"P", "a", "c", "k", "e", "t", " ", "L", "o", "s", "s">>

s_DnsSlow == <<"D", "N", "S", " ", "s", "l", "o", "w">>

s_NvDriver == <<"N", "V", "I", "D", "I", "A", " ", "G", "P", "U">>

\* platform.version()
s_PlatformVersion == <<"1", "0", ".", "0">>
\* Win32_OperatingSystem.Caption
s_Win11Pro == <<"1", "1", " ", "P", "r", "o">>
s_Win10Home == <<"1", "0", " ", "H", "o", "m", "e">>
s_Server == <<"S", "e", "r", "v", "e", "r">>
s_Pro == <<"P", "r", "o">>
s_Home == <<"H", "o", "m", "e">>
s_Enterprise == <<"E", "n", "t", "e", "r", "p", "r", "i", "s", "e">>

s_Audio == <<"R", "e", "a", "l", "t", "e", "k">>

(***************************************************************************)
(* The parts of the state a specification does not use stay as they start. *)
(***************************************************************************)
\* no DiagnosticResult constructed yet
NoResult == [issues |-> <<>>, scan_id |-> <<"sha256", 0>>, counts |-> PostInitCounts(<<>>, 0, 0, 0, 0)]

\* a snapshot with every optional fact absent
BlankSnapshot == SystemSnapshot(StartDay, <<>>, WindowsInfo(s_PlatformVersion, s_PlatformVersion, "Unknown", "AMD64"), <<>>, <<>>, <<>>, <<>>, <<>>, {}, <<>>, <<>>, <<>>)

ResultIdle ==
    /\ dr = NoResult
    /\ dr_state = "none"

AnalysisIdle ==
    /\ snap = BlankSnapshot
    /\ now = StartDay
    /\ calls = <<>>

\* the six locals of run_full_diagnostic before any collector has returned
NoLocals == [windows_info |-> <<>>, hardware_snapshot |-> <<>>, event_summary |-> <<>>,
             driver_result |-> <<>>, launcher_result |-> <<>>, network_result |-> <<>>]

AgentIdle ==
    /\ pc = "start"
    /\ logging_bound = FALSE
    /\ wmi_available = FALSE
    /\ quick_mode = "unset"
    /\ self_errors = <<>>
    /\ locals = NoLocals
    /\ invoked = <<>>
    /\ faulted = {}
    /\ produced = NoLocals
    /\ exception = ""
    /\ worker = [state |-> "none", output |-> <<>>]
    /\ tmp_file = "none"
    /\ hw_step = [outcome |-> "none", base |-> 0]
    /\ self_snapshot = <<>>
    /\ self_issues = <<>>
    /\ run_result = <<>>
    /\ issue_ids = <<>>
    /\ reanalysis = <<>>

\* WMIHelper(max_retries): __init__, lines 36-51, with the availability the
\* is_available property finds and caches at its first evaluation
WMIHelper(max_retries, available) ==
    [max_retries |-> max_retries, is_available |-> available, connection |-> FALSE,
     query_count |-> 0, error_count |-> 0]

\* no call of query in progress
NoQuery == [pc |-> "idle", attempt |-> 0, query_str |-> FALSE, last_error |-> "None", result |-> <<>>, number |-> 0]

WmiIdle ==
    /\ wmi_self = WMIHelper(0, FALSE)
    /\ wmi_call = NoQuery

\* CustomRule, lines 13-24, reduced to id and enabled; builtin is the position
\* in EXAMPLE_RULES of the object this list entry is, 0 for an object of its own
CustomRule(id, enabled, builtin) == [id |-> id, enabled |-> enabled, builtin |-> builtin]

\* EXAMPLE_RULES, lines 63-104, as the class is defined
EXAMPLE_RULES ==
    <<CustomRule("custom_high_memory_custom", TRUE, 1), CustomRule("custom_low_disk_space_custom", TRUE, 2),
      CustomRule("custom_old_gpu_driver_custom", TRUE, 3), CustomRule("custom_cpu_temperature_custom", TRUE, 4)>>

\* a file: missing, not parseable, parseable to something that is no list,
\* or a list of dictionaries
File(state, data) == [state |-> state, data |-> data]

NoCall == [op |-> "none", ret |-> "None", rules_before |-> <<>>, file_before |-> File("missing", <<>>), number |-> 0]

RulesIdle ==
    /\ self_rules = <<>>
    /\ rules_file = File("missing", <<>>)
    /\ example_rules = EXAMPLE_RULES
    /\ last_call = NoCall

\* DriverCompatibilityResult(), lines 53-69, with every field
EmptyDriverCheck ==
    [total_drivers |-> 0, up_to_date |-> 0, update_available |-> 0, outdated |-> 0, critical |-> 0, unknown |-> 0,
     gpu_drivers |-> <<>>, audio_drivers |-> <<>>, network_drivers |-> <<>>, other_drivers |-> <<>>,
     critical_issues |-> <<>>, recommendations |-> 0]

NoDriverCheck == [pc |-> "idle", i |-> 1, result |-> EmptyDriverCheck, errors |-> <<>>]

DriversIdle ==
    /\ drivers = <<>>
    /\ driver_check = NoDriverCheck

\* LAUNCHER_CONFIGS, lines 77-200: the launcher types that have a configuration
LAUNCHER_CONFIGS == {"steam", "epic_games", "ea_app", "ubisoft_connect", "battle_net", "xbox_app", "gog_galaxy", "riot_client"}

LaunchersIdle ==
    /\ machine = [t \in LAUNCHER_CONFIGS |-> "absent"]
    /\ detection = <<>>

ProcessesIdle ==
    /\ wmi_processes = [is_available |-> FALSE, processes |-> <<>>]
    /\ checked = <<>>

\* DiagnosticAgent.__init__, lines 34-57, and EventLogCollector.__init__,
\* line 119: the lists are empty and nothing has been returned
NewAgent(bound) ==
    [logging_bound |-> bound, errors |-> <<>>, event_errors |-> <<>>, results |-> <<>>, exceptions |-> 0]

RunsIdle == agent_runs = NewAgent(FALSE)

UtilIdle == WmiIdle /\ RulesIdle /\ DriversIdle /\ LaunchersIdle /\ ProcessesIdle /\ RunsIdle

(***************************************************************************)
(* core/analysis.py: analyze_for_issues                                    *)
(***************************************************************************)
\* lines 24-62: memory size and memory speed
analysis_memory(hw) ==
    IF hw.memory = <<>> THEN <<>>
    ELSE LET memory == hw.memory[1] IN
         (IF memory.total_gb < 8 THEN <<Issue(Title("Critical Low Memory"), "critical")>>
          ELSE IF memory.total_gb < 16 THEN <<Issue(Title("Low Memory for Modern Games"), "medium")>>
          ELSE <<>>)
         \o (IF Truthy(memory.speed_mhz) /\ memory.speed_mhz < 2400 /\ memory.type \in {"DDR4", "DDR5"}
             THEN <<Issue(Title("Slow Memory Speed Detected"), "medium")>> ELSE <<>>)

\* lines 65-89: one drive of the storage loop
analysis_drive(drive) ==
    (IF drive.is_system_drive /\ drive.type = "HDD"
     THEN <<Issue(Title("System Running on Mechanical Hard Drive"), "high")>> ELSE <<>>)
    \o (IF drive.total_gb > 0 /\ (drive.total_gb - drive.free_gb) * 100 > 90 * drive.total_gb
        THEN <<Issue(TitleS("Drive Nearly Full: ", Truncate(drive.model, 30)), "high")>> ELSE <<>>)

\* lines 65-89
analysis_storage(hw) == Concat([i \in 1..Len(hw.storage_devices) |-> analysis_drive(hw.storage_devices[i])])

\* lines 95-111: one GPU; an unparseable driver_date raises inside the try
\* and the bare except passes.  today is the day datetime.now() falls on.
analysis_gpu(gpu, today) ==
    IF gpu.driver_date = NoneInt \/ gpu.driver_date = BadDate THEN <<>>
    ELSE IF today - gpu.driver_date > 180
         THEN <<Issue(TitleS("Outdated GPU Driver: ", Truncate(gpu.name, 40)), "high")>>
         ELSE <<>>

\* lines 92-111
analysis_gpus(hw, today) == Concat([i \in 1..Len(hw.gpus) |-> analysis_gpu(hw.gpus[i], today)])

analysis_cpu_one_threshold(hw) ==
    IF hw.cpu = <<>> \/ ~Truthy(hw.cpu[1].temperature_celsius) THEN <<>>
    ELSE IF hw.cpu[1].temperature_celsius > 85 THEN <<Issue(Title("CPU Running Hot"), "high")>> ELSE <<>>

\* lines 114-135
analysis_cpu_temperature(hw) ==
    IF hw.cpu = <<>> \/ ~Truthy(hw.cpu[1].temperature_celsius) THEN <<>>
    ELSE LET temp == hw.cpu[1].temperature_celsius IN
         IF temp > 85 THEN <<Issue(Title("CPU Overheating Detected"), "critical")>>
         ELSE IF temp > 75 THEN <<Issue(Title("CPU Running Hot"), "medium")>>
         ELSE <<>>

\* lines 22-135
analysis_hardware(snapshot, today) ==
    IF snapshot.hardware = <<>> THEN <<>>
    ELSE LET hw == snapshot.hardware[1] IN
         analysis_memory(hw) \o analysis_storage(hw) \o analysis_gpus(hw, today) \o analysis_cpu_temperature(hw)

\* lines 139-149: one item of the prerequisites loop
analysis_prerequisite(item) ==
    IF ~item.installed /\ item.critical
    THEN <<Issue(TitleS("Missing Critical Component: ", item.name), "high")>> ELSE <<>>

\* lines 138-160
analysis_prerequisites(snapshot) ==
    IF snapshot.prerequisites_result = <<>> THEN <<>>
    ELSE LET pr == snapshot.prerequisites_result[1] IN
         Concat([i \in 1..Len(pr.items) |-> analysis_prerequisite(pr.items[i])])
         \o (IF ~pr.game_mode_enabled THEN <<Issue(Title("Windows Game Mode Disabled"), "low")>> ELSE <<>>)

\* lines 166-178: one flagged process
analysis_process(p_issue) ==
    LET lowered == Lower(p_issue.name)
        severity == IF \E x \in {<<"a", "n", "t", "i", "v", "i", "r", "u", "s">>, <<"s", "e", "c", "u", "r", "i", "t", "y">>, <<"m", "c", "a", "f", "e", "e">>, <<"n", "o", "r", "t", "o", "n">>} : Contains(lowered, x)
                    THEN "high" ELSE "medium"
    IN  <<Issue(TitleS("Background Process Interfering: ", p_issue.name), severity)>>

\* lines 163-178
analysis_processes(snapshot) == Concat([i \in 1..Len(snapshot.process_issues) |-> analysis_process(snapshot.process_issues[i])])

\* lines 193-208: one issue text of the network result
analysis_network_text(issue_text) ==
    LET lowered == Lower(issue_text)
        severity == IF Contains(lowered, <<"h", "i", "g", "h", " ", "l", "a", "t", "e", "n", "c", "y">>) THEN "high"
                    ELSE IF Contains(lowered, <<"p", "a", "c", "k", "e", "t", " ", "l", "o", "s", "s">>) THEN "high"
                    ELSE "medium"
    IN  <<Issue(Title("Network Issue Detected"), severity)>>

analysis_network_every_rule(snapshot) ==
    IF snapshot.network_result = <<>> THEN <<>>
    ELSE LET nr == snapshot.network_result[1] IN
         (IF ~nr.is_connected THEN <<Issue(Title("No Network Connection"), "high")>> ELSE <<>>)
         \o Concat([i \in 1..Len(nr.issues) |-> analysis_network_text(nr.issues[i])])
         \o (IF nr.connection_type = "wifi" THEN <<Issue(Title("Using WiFi for Gaming"), "low")>> ELSE <<>>)

\* lines 181-220
analysis_network(snapshot) ==
    IF snapshot.network_result = <<>> THEN <<>>
    ELSE LET nr == snapshot.network_result[1] IN
         IF ~nr.is_connected THEN <<Issue(Title("No Network Connection"), "high")>>
         ELSE Concat([i \in 1..Len(nr.issues) |-> analysis_network_text(nr.issues[i])])
              \o (IF nr.connection_type # "none" /\ nr.connection_type = "wifi"
                  THEN <<Issue(Title("Using WiFi for Gaming"), "low")>> ELSE <<>>)

\* lines 225-248: one benchmark result; details.get('write_speed_mbps', 0)
analysis_bench(bench) ==
    IF bench.name = "Disk I/O (Seq)" /\ ~bench.error
    THEN LET write_speed == IF bench.has_write THEN bench.write_speed_mbps ELSE 0 IN
         IF write_speed > 0 /\ write_speed < 100 THEN <<Issue(Title("Poor Disk Write Performance"), "medium")>>
         ELSE IF write_speed > 0 /\ write_speed < 50 THEN <<Issue(Title("Very Poor Disk Performance"), "high")>>
         ELSE <<>>
    ELSE <<>>

\* lines 223-248
analysis_benchmarks(snapshot) ==
    IF snapshot.benchmark_result = <<>> THEN <<>>
    ELSE LET results == snapshot.benchmark_result[1].results IN
         Concat([i \in 1..Len(results) |-> analysis_bench(results[i])])

\* lines 251-275
analysis_drivers(snapshot) ==
    IF snapshot.driver_result = <<>> THEN <<>>
    ELSE LET d == snapshot.driver_result[1] IN
         (IF d.critical > 0
          THEN [i \in 1..Len(d.critical_issues) |-> Issue(TitleS("Critical Driver Issue: ", d.critical_issues[i].name), "critical")]
          ELSE <<>>)
         \o Concat([i \in 1..Len(d.gpu_drivers) |->
                IF d.gpu_drivers[i].status = "update_available"
                THEN <<Issue(TitleS("GPU Driver Update Available: ", d.gpu_drivers[i].name), "medium")>> ELSE <<>>])

\* lines 278-299
analysis_event_logs(snapshot) ==
    IF snapshot.event_summary = <<>> THEN <<>>
    ELSE LET es == snapshot.event_summary[1] IN
         (IF critical_errors(es) > 0 THEN <<Issue(TitleN("Recent System Crashes Detected: ", critical_errors(es)), "high")>> ELSE <<>>)
         \o (IF app_crashes(es) > 0 THEN <<Issue(TitleN("Recent Application Crashes: ", app_crashes(es)), "medium")>> ELSE <<>>)

\* lines 302-313
analysis_launchers(snapshot) ==
    IF snapshot.launcher_result = <<>> THEN <<>>
    ELSE LET running_count == Len(snapshot.launcher_result[1].running_launchers) IN
         IF running_count > 3 THEN <<Issue(TitleN("Too Many Launchers Running: ", running_count), "medium")>> ELSE <<>>

\* lines 138, 163, 223: reading an attribute the snapshot does not have
\* raises AttributeError out of analyze_for_issues
analysis_raises(snapshot) == ~(ExtraAttrs \subseteq snapshot.attrs)

\* lines 19-313: the issues list as the rules leave it, in rule order
analysis_rule_issues(snapshot, today) ==
    analysis_hardware(snapshot, today) \o analysis_prerequisites(snapshot) \o analysis_processes(snapshot)
      \o analysis_network(snapshot) \o analysis_benchmarks(snapshot) \o analysis_drivers(snapshot)
      \o analysis_event_logs(snapshot) \o analysis_launchers(snapshot)

\* lines 316-321 and severity_order.get(x.severity, 4)
severity_order(sev) ==
    CASE sev = "critical" -> 0
      [] sev = "high"     -> 1
      [] sev = "medium"   -> 2
      [] sev = "low"      -> 3
      [] OTHER            -> 4

RECURSIVE insert_unstable(_, _)
insert_unstable(sorted, x) ==
    IF sorted = <<>> THEN <<x>>
    ELSE IF severity_order(x.severity) <= severity_order(Head(sorted).severity) THEN <<x>> \o sorted
    ELSE <<Head(sorted)>> \o insert_unstable(Tail(sorted), x)

RECURSIVE insert_by_key(_, _)
\* list.sort(key=...) is stable: an element goes behind every element whose
\* key is not greater than its own
insert_by_key(sorted, x) ==
    IF sorted = <<>> THEN <<x>>
    ELSE IF severity_order(x.severity) < severity_order(Head(sorted).severity) THEN <<x>> \o sorted
    ELSE <<Head(sorted)>> \o insert_by_key(Tail(sorted), x)

RECURSIVE sort_by_severity(_)
\* line 322: issues.sort(key=lambda x: severity_order.get(x.severity, 4))
sort_by_severity(issues) ==
    IF issues = <<>> THEN <<>>
    ELSE insert_by_key(sort_by_severity(SubSeq(issues, 1, Len(issues) - 1)), issues[Len(issues)])

\* analyze_for_issues(snapshot) called on day today: it raises, or returns the
\* sorted issues
analyze_for_issues(snapshot, today) ==
    IF analysis_raises(snapshot) THEN [raised |-> TRUE, issues |-> <<>>]
    ELSE [raised |-> FALSE, issues |-> sort_by_severity(analysis_rule_issues(snapshot, today))]

analysis_records_error(snapshot) ==
    [snapshot EXCEPT !.errors_encountered = Append(@, "Analysis error")]

\* lines 12-324 assign to no attribute of the snapshot, of its nested records
\* or of their lists (issues.sort at 322 sorts the function's own list): the
\* snapshot the caller holds after the call, returned or raised
analysis_snapshot_after(snapshot) == snapshot

(***************************************************************************)
(* Inputs: the values a snapshot field is drawn from.  Each set holds the  *)
(* field's values other than its default; a snapshot has at most           *)
(* MaxNonDefault fields away from their defaults.                          *)
(***************************************************************************)
CpuChoices ==
    {<<CPUInfo(NoneInt, TRUE)>>, <<CPUInfo(60, TRUE)>>, <<CPUInfo(75, TRUE)>>, <<CPUInfo(78, TRUE)>>,
     <<CPUInfo(85, TRUE)>>, <<CPUInfo(90, TRUE)>>, <<CPUInfo(90, FALSE)>>}

MemoryChoices ==
    {<<MemoryInfo(4, 3, NoneInt, "DDR4")>>, <<MemoryInfo(12, 11, 2133, "DDR4")>>,
     <<MemoryInfo(16, 14, 2133, "DDR3")>>, <<MemoryInfo(32, 8, 3200, "DDR5")>>}

GpuChoices ==
    {<<GPUInfo(s_RTX, 8192, "551.23", StartDay - 180)>>, <<GPUInfo(s_RTX, 8192, "551.23", StartDay - 181)>>,
     <<GPUInfo(s_RTX, 2048, "", NoneInt)>>, <<GPUInfo(s_RTX, 8192, "551.23", BadDate)>>}

StorageChoices ==
    {<<StorageInfo(s_WD, "HDD", 100, 97, 3, TRUE)>>, <<StorageInfo(s_EVO, "SSD", 100, 88, 12, FALSE)>>,
     <<StorageInfo(s_EVO, "SSD", 100, 90, 10, TRUE)>>, <<StorageInfo(s_WD, "HDD", 0, 0, 0, FALSE)>>,
     <<StorageInfo(s_EVO, "SSD", 100, 93, 7, FALSE), StorageInfo(s_WD, "HDD", 100, 50, 50, TRUE)>>}

PrerequisitesChoices ==
    {<<PrerequisitesResult(<<>>, FALSE)>>,
     <<PrerequisitesResult(<<PrerequisiteInfo(s_DirectX, FALSE, TRUE)>>, FALSE)>>,
     <<PrerequisitesResult(<<PrerequisiteInfo(s_VC, FALSE, FALSE), PrerequisiteInfo(s_DirectX, TRUE, TRUE)>>, TRUE)>>}

ProcessChoices ==
    {<<ProcessIssue(s_McAfee, 10)>>, <<ProcessIssue(s_Discord, 11)>>,
     <<ProcessIssue(s_Discord, 11), ProcessIssue(s_McAfee, 10)>>}

NetworkChoices ==
    {<<DefaultNetworkResult>>,
     <<NetworkDiagnosticsResult(FALSE, "wifi", NoneInt, <<>>, <<s_HighLatency>>)>>,
     <<NetworkDiagnosticsResult(TRUE, "wifi", 120, <<200>>, <<s_DnsSlow, s_PacketLoss>>)>>,
     <<NetworkDiagnosticsResult(TRUE, "ethernet", 20, <<30>>, <<>>)>>,
     <<NetworkDiagnosticsResult(TRUE, "ethernet", 20, <<30>>, <<s_HighLatency>>)>>}

BenchmarkChoices ==
    {<<BenchmarkSuite(<<BenchmarkResult("Disk I/O (Seq)", FALSE, TRUE, 30)>>)>>,
     <<BenchmarkSuite(<<BenchmarkResult("Disk I/O (Seq)", FALSE, TRUE, 50)>>)>>,
     <<BenchmarkSuite(<<BenchmarkResult("Disk I/O (Seq)", FALSE, TRUE, 70)>>)>>,
     <<BenchmarkSuite(<<BenchmarkResult("Disk I/O (Seq)", FALSE, TRUE, 100)>>)>>,
     <<BenchmarkSuite(<<BenchmarkResult("Disk I/O (Seq)", TRUE, FALSE, 0), BenchmarkResult("CPU Single-Core", FALSE, FALSE, 0)>>)>>}

DriverChoices ==
    {<<DefaultDriverResult>>,
     <<DriverCompatibilityResult(1, 0, <<DriverInfo(s_NvDriver, "critical")>>, <<DriverInfo(s_NvDriver, "critical")>>)>>,
     <<DriverCompatibilityResult(0, 1, <<>>, <<DriverInfo(s_NvDriver, "update_available")>>)>>,
     <<DriverCompatibilityResult(0, 0, <<>>, <<DriverInfo(s_NvDriver, "up_to_date")>>)>>}

EventChoices ==
    {<<DefaultEventSummary>>, <<EventLogSummary(2, <<1001, 1002, 1001>>, 1, 7)>>,
     <<EventLogSummary(0, <<1002>>, 0, 7)>>, <<EventLogSummary(1, <<>>, 0, 7)>>}

LauncherChoices ==
    {<<DefaultLauncherResult>>,
     <<GameLauncherResult(<<LauncherInfo(TRUE, TRUE), LauncherInfo(TRUE, TRUE), LauncherInfo(FALSE, TRUE), LauncherInfo(FALSE, FALSE)>>,
                          <<"Steam", "Epic Games", "Battle.net", "GOG Galaxy">>, 600)>>,
     <<GameLauncherResult(<<LauncherInfo(TRUE, FALSE)>>, <<"Steam">>, 100)>>}

\* attrs of a snapshot that lacks undeclared attributes
AttrsChoices == {{}, {"prerequisites_result", "process_issues"}}

Fields == {"cpu", "memory", "gpus", "storage", "prerequisites", "processes", "network", "benchmark", "driver", "event", "launcher", "attrs", "hardware"}

Pick(field, away, choices, default) == IF field \in away THEN choices ELSE {default}

\* The snapshots handed to analyze_for_issues
Snapshots ==
    UNION { UNION { UNION { UNION {
        { SystemSnapshot(StartDay, IF "hardware" \in away THEN <<>> ELSE <<HardwareSnapshot(c, m, g, s)>>,
                         BlankSnapshot.windows, <<>>, ev, dv, la, nw, at, pq, ps, bn) :
            pq \in Pick("prerequisites", away, PrerequisitesChoices, <<>>),
            ps \in Pick("processes", away, ProcessChoices, <<>>),
            bn \in Pick("benchmark", away, BenchmarkChoices, <<>>),
            at \in Pick("attrs", away, AttrsChoices, ExtraAttrs) }
          : ev \in Pick("event", away, EventChoices, <<>>),
            dv \in Pick("driver", away, DriverChoices, <<>>),
            la \in Pick("launcher", away, LauncherChoices, <<>>),
            nw \in Pick("network", away, NetworkChoices, <<>>) }
          : c \in Pick("cpu", away, CpuChoices, <<>>),
            m \in Pick("memory", away, MemoryChoices, <<>>) }
          : g \in Pick("gpus", away, GpuChoices, <<>>),
            s \in Pick("storage", away, StorageChoices, <<>>) }
          : away \in {f \in SUBSET Fields : Cardinality(f) <= MaxNonDefault} }

(***************************************************************************)
(* SpecAnalysis: analyze_for_issues is called up to MaxCalls times on one  *)
(* snapshot while the wall clock advances.                                 *)
(***************************************************************************)
InitAnalysis ==
    /\ snap \in Snapshots
    /\ now = StartDay
    /\ calls = <<>>
    /\ ResultIdle
    /\ AgentIdle
    /\ UtilIdle

\* a call of analyze_for_issues(snap) on the current day
Analyze ==
    /\ Len(calls) < MaxCalls
    /\ calls' = Append(calls, [at |-> now, result |-> analyze_for_issues(snap, now)])
    /\ snap' = analysis_snapshot_after(snap)
    /\ UNCHANGED <<now, resVars, agentVars, utilVars>>

\* midnight passes
ClockTick ==
    /\ now < StartDay + MaxTicks
    /\ now' = now + 1
    /\ UNCHANGED <<snap, calls, resVars, agentVars, utilVars>>

NextAnalysis == Analyze \/ ClockTick

SpecAnalysis == InitAnalysis /\ [][NextAnalysis]_vars

(***************************************************************************)
(* C8, C10                                                                 *)
(***************************************************************************)
\* a is a strictly lower severity than b
StrictlyLower(a, b) ==
    <<a, b>> \in {<<"low", "medium">>, <<"low", "high">>, <<"low", "critical">>,
                  <<"medium", "high">>, <<"medium", "critical">>, <<"high", "critical">>}

OfSeverity(issues, sev) == SelectSeq(issues, LAMBDA x : x.severity = sev)

\* C8: the list analyze_for_issues returns is sorted by severity, critical
\* first: no issue is preceded by an issue of strictly lower severity, and the
\* issues of each severity are the ones the rules emitted, in the order the
\* rules emitted them.
C8_SortedBySeverityStable ==
    \A k \in 1..Len(calls) :
        ~calls[k].result.raised =>
            LET out == calls[k].result.issues
                emitted == analysis_rule_issues(snap, calls[k].at)
            IN  /\ \A i, j \in 1..Len(out) : i < j => ~StrictlyLower(out[i].severity, out[j].severity)
                /\ \A sev \in IssueSeverity : OfSeverity(out, sev) = OfSeverity(emitted, sev)
                /\ Len(out) = Len(emitted)

\* C8 witness: a returned list that the sort had to reorder and that holds
\* two issues of one severity with different titles.
C8_Witness ==
    \E k \in 1..Len(calls) :
        /\ ~calls[k].result.raised
        /\ calls[k].result.issues # analysis_rule_issues(snap, calls[k].at)
        /\ \E i, j \in 1..Len(calls[k].result.issues) :
              /\ i < j
              /\ calls[k].result.issues[i].severity = calls[k].result.issues[j].severity
              /\ calls[k].result.issues[i].title # calls[k].result.issues[j].title

\* C10: two calls of analyze_for_issues on the same snapshot, at any two
\* times, return the same issues: same count and, position by position, the
\* same titles and severities.
C10_SameIssuesOnEveryCall ==
    \A i, j \in 1..Len(calls) : calls[i].result = calls[j].result

(***************************************************************************)
(* SpecResult: a DiagnosticResult is constructed from an issue list and    *)
(* count arguments; afterwards its public issues list can be changed.      *)
(***************************************************************************)
PlainIssue(sev) == Issue(Title("issue"), sev)

InitResult == ResultIdle /\ AnalysisIdle /\ AgentIdle /\ UtilIdle

\* The count keyword arguments of a constructor call: none, or one of the four
\* counts given explicitly.
CountArgs ==
    {[critical |-> 0, high |-> 0, medium |-> 0, low |-> 0]}
      \cup {[critical |-> v, high |-> 0, medium |-> 0, low |-> 0] : v \in 1..MaxCountArg}
      \cup {[critical |-> 0, high |-> v, medium |-> 0, low |-> 0] : v \in 1..MaxCountArg}
      \cup {[critical |-> 0, high |-> 0, medium |-> v, low |-> 0] : v \in 1..MaxCountArg}
      \cup {[critical |-> 0, high |-> 0, medium |-> 0, low |-> v] : v \in 1..MaxCountArg}

\* DiagnosticResult(snapshot, issues=..., critical_count=..., high_count=..., ...)
ConstructResult ==
    /\ dr_state = "none"
    /\ \E sevs \in BoundedSeq(IssueSeverity, MaxInitIssues), a \in CountArgs :
          dr' = DiagnosticResult(0, [i \in 1..Len(sevs) |-> PlainIssue(sevs[i])], a.critical, a.high, a.medium, a.low)
    /\ dr_state' = "built"
    /\ UNCHANGED <<anaVars, agentVars, utilVars>>

\* result.issues.append(issue): issues is a plain list field of the dataclass
AppendIssue ==
    /\ dr_state = "built"
    /\ Len(dr.issues) < MaxIssues
    /\ \E sev \in IssueSeverity : dr' = [dr EXCEPT !.issues = Append(@, PlainIssue(sev))]
    /\ UNCHANGED <<dr_state, anaVars, agentVars, utilVars>>

NextResult == ConstructResult \/ AppendIssue

SpecResult == InitResult /\ [][NextResult]_vars

(***************************************************************************)
(* C1, C2                                                                  *)
(***************************************************************************)
SeverityCount(issues, sev) == Cardinality({i \in 1..Len(issues) : issues[i].severity = sev})

WeightedPenalty(issues) ==
    25 * SeverityCount(issues, "critical") + 15 * SeverityCount(issues, "high")
      + 5 * SeverityCount(issues, "medium") + SeverityCount(issues, "low")

\* C1: the health score of every DiagnosticResult is max(0, 100 - the sum of
\* the weights critical 25, high 15, medium 5, low 1 over its issues), is 100
\* for an empty issue list, and lies in 0..100.
C1_HealthScoreFormula ==
    dr_state = "built" =>
        /\ health_score(dr) = (IF 100 - WeightedPenalty(dr.issues) < 0 THEN 0 ELSE 100 - WeightedPenalty(dr.issues))
        /\ (dr.issues = <<>> => health_score(dr) = 100)
        /\ health_score(dr) \in 0..100

\* C1 witness: a result whose penalty exceeds 100 (the floor acts), with
\* issues of more than one severity.
C1_Witness ==
    /\ dr_state = "built"
    /\ WeightedPenalty(dr.issues) > 100
    /\ SeverityCount(dr.issues, "high") > 0
    /\ health_score(dr) = 0

\* C2: the four stored counts are the per-severity numbers of the issues and
\* add up to len(issues), at construction whatever count arguments are passed
\* and after every later change of the issues list.
C2_CountsDerivedFromIssues ==
    dr_state = "built" =>
        /\ dr.counts.critical_count = SeverityCount(dr.issues, "critical")
        /\ dr.counts.high_count = SeverityCount(dr.issues, "high")
        /\ dr.counts.medium_count = SeverityCount(dr.issues, "medium")
        /\ dr.counts.low_count = SeverityCount(dr.issues, "low")
        /\ dr.counts.critical_count + dr.counts.high_count + dr.counts.medium_count + dr.counts.low_count = Len(dr.issues)

(***************************************************************************)
(* DiagnosticAgent: its own rule battery (core/agent.py 360-866)           *)
(***************************************************************************)
\* a title with two integer arguments, the second kept as text
TitleNN(text, n, m) == <<text, <<ToString(m)>>, n>>

\* lines 410-452
_analyze_cpu(cpu) ==
    (IF Truthy(cpu.temperature_celsius) /\ cpu.temperature_celsius > 85
     THEN <<Issue(Title("CPU Running Hot"), "high")>> ELSE <<>>)
    \o (IF ~cpu.virtualization_support THEN <<Issue(Title("Virtualization Not Supported"), "low")>> ELSE <<>>)

\* lines 454-496: usage_percent = used / total * 100, or 0 when total is 0
_analyze_memory(memory) ==
    IF memory.total_gb > 0 /\ memory.used_gb * 100 > 90 * memory.total_gb
    THEN <<Issue(Title("Critical Memory Usage"), "critical")>>
    ELSE IF memory.total_gb > 0 /\ memory.used_gb * 100 > 80 * memory.total_gb
    THEN <<Issue(Title("High Memory Usage"), "medium")>>
    ELSE <<>>

\* lines 498-541
_analyze_gpu(gpu) ==
    (IF gpu.driver_version # "" THEN <<Issue(Title("GPU Driver Version"), "low")>> ELSE <<>>)
    \o (IF gpu.vram_mb # 0 /\ gpu.vram_mb < 4096 THEN <<Issue(Title("Low GPU Memory"), "medium")>> ELSE <<>>)

\* lines 543-605
_analyze_storage(storage) ==
    (IF storage.total_gb > 0 /\ storage.used_gb * 100 > 95 * storage.total_gb
     THEN <<Issue(TitleS("Critical Disk Space on ", storage.model), "critical")>>
     ELSE IF storage.total_gb > 0 /\ storage.used_gb * 100 > 85 * storage.total_gb
     THEN <<Issue(TitleS("Low Disk Space on ", storage.model), "high")>>
     ELSE <<>>)
    \o (IF storage.is_system_drive /\ storage.type = "HDD"
        THEN <<Issue(Title("System Drive on HDD"), "medium")>> ELSE <<>>)

\* lines 607-653
_analyze_event_logs(event_summary) ==
    (IF Len(event_summary.recent_crashes) >= 3
     THEN <<Issue(TitleNN("Frequent Application Crashes", Len(event_summary.recent_crashes),
                          event_summary.analysis_period_days), "high")>>
     ELSE <<>>)
    \o (IF event_summary.gaming_related_events > 0
        THEN <<Issue(TitleN("Gaming-Related System Events", event_summary.gaming_related_events), "low")>>
        ELSE <<>>)

\* lines 655-717
_analyze_drivers(driver_result) ==
    LET gpu_outdated == Cardinality({i \in 1..Len(driver_result.gpu_drivers) :
                            driver_result.gpu_drivers[i].status \in {"update_available", "outdated"}})
    IN  (IF driver_result.critical > 0
         THEN <<Issue(TitleN("Critical Driver Issues", driver_result.critical), "critical")>> ELSE <<>>)
        \o (IF driver_result.outdated > 0
            THEN <<Issue(TitleN("Outdated Drivers", driver_result.outdated), "medium")>> ELSE <<>>)
        \o (IF gpu_outdated > 0 THEN <<Issue(Title("GPU Driver Update Available"), "high")>> ELSE <<>>)

\* lines 719-782
_analyze_launchers(launcher_result) ==
    LET installed == launcher_result.installed_launchers
        overlays_enabled == Cardinality({i \in 1..Len(installed) : installed[i].overlay_enabled})
        auto_start_count == Cardinality({i \in 1..Len(installed) : installed[i].auto_start})
    IN  (IF overlays_enabled > 1
         THEN <<Issue(TitleN("Multiple Overlays Enabled", overlays_enabled), "medium")>> ELSE <<>>)
        \o (IF launcher_result.storage_used_gb > 500
            THEN <<Issue(TitleN("Large Game Library", launcher_result.storage_used_gb), "low")>> ELSE <<>>)
        \o (IF auto_start_count > 2
            THEN <<Issue(TitleN("Too Many Auto-Start Launchers", auto_start_count), "low")>> ELSE <<>>)

\* lines 784-866
_analyze_network(network_result) ==
    IF ~network_result.is_connected
    THEN <<Issue(Title("No Network Connection"), "critical")>>
    ELSE (IF network_result.connection_type = "wifi"
          THEN <<Issue(Title("WiFi Connection Detected"), "low")>> ELSE <<>>)
         \o (IF Truthy(network_result.dns_latency_ms) /\ network_result.dns_latency_ms > 100
             THEN <<Issue(Title("High DNS Latency"), "medium")>> ELSE <<>>)
         \o (IF \E i \in 1..Len(network_result.gaming_servers) : network_result.gaming_servers[i] > 150
             THEN <<Issue(Title("High Latency to Gaming Servers"), "medium")>> ELSE <<>>)

\* lines 360-408: the issues in the order the eight rule groups emit them;
\* the list is returned as built, it is not sorted
_analyze_for_issues(snapshot) ==
    IF snapshot = <<>> THEN <<>>
    ELSE LET sn == snapshot[1]
             hardware == sn.hardware[1]
         IN  (IF hardware.cpu # <<>> THEN _analyze_cpu(hardware.cpu[1]) ELSE <<>>)
             \o (IF hardware.memory # <<>> THEN _analyze_memory(hardware.memory[1]) ELSE <<>>)
             \o Concat([i \in 1..Len(hardware.gpus) |-> _analyze_gpu(hardware.gpus[i])])
             \o Concat([i \in 1..Len(hardware.storage_devices) |-> _analyze_storage(hardware.storage_devices[i])])
             \o (IF sn.event_summary # <<>> THEN _analyze_event_logs(sn.event_summary[1]) ELSE <<>>)
             \o (IF sn.driver_result # <<>> THEN _analyze_drivers(sn.driver_result[1]) ELSE <<>>)
             \o (IF sn.launcher_result # <<>> THEN _analyze_launchers(sn.launcher_result[1]) ELSE <<>>)
             \o (IF sn.network_result # <<>> THEN _analyze_network(sn.network_result[1]) ELSE <<>>)

\* models/__init__.py 61-65: a rule of the agent passes id="", and Issue
\* sets id to the first 12 hex digits of md5(title + description +
\* datetime.now().isoformat()).  The digest is kept as its input: the title
\* (the description is a function of the same facts) and the instant read.
generated_id(issue, instant) == <<"md5", issue.title, instant>>

\* the ids of a list of issues the agent's rules built at one instant
generated_ids(issues, instant) == [i \in 1..Len(issues) |-> generated_id(issues[i], instant)]

(***************************************************************************)
(* DiagnosticAgent: the collection steps (core/agent.py 131-358)           *)
(***************************************************************************)
\* lines 156-165: the edition read off the caption
edition_of(caption) ==
    IF Contains(caption, s_Pro) THEN "Pro"
    ELSE IF Contains(caption, s_Home) THEN "Home"
    ELSE IF Contains(caption, s_Enterprise) THEN "Enterprise"
    ELSE "Unknown"

\* lines 187-198
_collect_windows_fallback == WindowsInfo(s_PlatformVersion, s_PlatformVersion, "Unknown", "AMD64")

\* wmi_helper.get_operating_system_info(): None when the query fails, else
\* the fields of Win32_OperatingSystem the agent reads
OsInfoChoices ==
    {<<>>} \cup {<<[Caption |-> c, BuildNumber |-> <<"2", "2">>, OSArchitecture |-> "64-bit"]>> :
                    c \in {s_Win11Pro, s_Win10Home, s_Server}}

\* what the worker leaves in its output file when it exits with status 0
\* (collectors/collector_script.py 24-50): the snapshot and the collector's
\* error list
WorkerData ==
    {[data |-> HardwareSnapshot(<<CPUInfo(90, FALSE)>>, <<MemoryInfo(12, 11, 2133, "DDR4")>>,
                                <<GPUInfo(s_RTX, 2048, "551.23", StartDay - 181)>>,
                                <<StorageInfo(s_WD, "HDD", 100, 97, 3, TRUE)>>),
      errors |-> <<"Motherboard collection failed">>],
     [data |-> HardwareSnapshot(<<CPUInfo(60, TRUE)>>, <<MemoryInfo(32, 8, 3200, "DDR5")>>, <<>>, <<>>),
      errors |-> <<>>]}

\* the ways the worker process ends by itself: status 0 with its output
\* written, status 0 with output that json.load or from_dict rejects, a
\* nonzero status (collector_script.py 52-54, or a crash of the interpreter)
WorkerExits ==
    {[state |-> "exited0", output |-> <<d>>] : d \in WorkerData}
    \cup {[state |-> "exited0", output |-> <<>>], [state |-> "exited1", output |-> <<>>]}

\* subprocess.run without a timeout never gives up on a running child
run_without_timeout(w) == FALSE

\* line 233: subprocess.run(..., timeout=120) raises TimeoutExpired, after
\* killing the child, while the child has not exited
run_timeout_enabled(w) == w.state = "running"

\* the faults of the hardware worker that the step absorbs
WorkerFaults == {"timeout", "exit_nonzero", "not_started", "bad_output"}

\* lines 209-263 with handlers that swallow a fault without recording it
hardware_step_silent(how, w, unlink_ok, errors) ==
    IF how = "collect" /\ w.state = "exited0" /\ w.output # <<>>
    THEN [snapshot |-> w.output[1].data, outcome |-> "ok",
          errors |-> errors \o w.output[1].errors, tmp |-> "deleted"]
    ELSE [snapshot |-> EmptyHardwareSnapshot, outcome |-> "bad_output", errors |-> errors, tmp |-> "exists"]

\* lines 209-263, from the point where logging.info has returned: what the
\* step returns, what it appends to self.errors and what becomes of the
\* output file.  how: "tempfile_fails" (line 222 raises), "run_fails" (line
\* 229 raises something other than TimeoutExpired), "timeout", "collect"
\* (subprocess.run returned).  unlink_ok: whether line 254 succeeds.
hardware_step(how, w, unlink_ok, errors) ==
    IF how = "tempfile_fails"
    THEN [snapshot |-> EmptyHardwareSnapshot, outcome |-> "not_started",
          errors |-> Append(errors, "Failed to execute hardware collector subprocess"), tmp |-> "none"]
    ELSE IF how = "run_fails"
    THEN [snapshot |-> EmptyHardwareSnapshot, outcome |-> "not_started",
          errors |-> Append(errors, "Failed to execute hardware collector subprocess"), tmp |-> "exists"]
    ELSE IF how = "timeout"
    THEN [snapshot |-> EmptyHardwareSnapshot, outcome |-> "timeout",
          errors |-> Append(errors, "Hardware collection timed out."), tmp |-> "exists"]
    ELSE IF w.state = "exited0" /\ w.output = <<>>
    THEN [snapshot |-> EmptyHardwareSnapshot, outcome |-> "bad_output",
          errors |-> Append(errors, "Failed to execute hardware collector subprocess"), tmp |-> "exists"]
    ELSE IF w.state = "exited0"
    THEN [snapshot |-> w.output[1].data, outcome |-> "ok",
          errors |-> IF unlink_ok THEN errors \o w.output[1].errors
                     ELSE Append(errors \o w.output[1].errors, "Failed to execute hardware collector subprocess"),
          tmp |-> IF unlink_ok THEN "deleted" ELSE "exists"]
    ELSE [snapshot |-> EmptyHardwareSnapshot, outcome |-> "exit_nonzero",
          errors |-> IF unlink_ok THEN Append(errors, "Hardware collection subprocess failed.")
                     ELSE errors \o <<"Hardware collection subprocess failed.",
                                      "Failed to execute hardware collector subprocess">>,
          tmp |-> IF unlink_ok THEN "deleted" ELSE "exists"]

\* what a collector call does: it raises, or returns a value and leaves the
\* errors get_errors() reports
Raises == [raises |-> TRUE, value |-> <<>>, errors |-> <<>>]

Returns(value, errors) == [raises |-> FALSE, value |-> value, errors |-> errors]

\* EventLogCollector.collect_all / get_errors
EventOutcomes ==
    {Raises, Returns(DefaultEventSummary, <<>>),
     Returns(EventLogSummary(2, <<1001, 1002, 1001>>, 1, 7), <<"System event collection error">>)}

\* DriverCompatibilityChecker.check_all_drivers / get_errors
DriverOutcomes ==
    {Raises, Returns(DriverCompatibilityResult(0, 0, <<>>, <<DriverInfo(s_NvDriver, "up_to_date")>>), <<>>),
     Returns(DriverCompatibilityResult(1, 1, <<DriverInfo(s_Audio, "critical")>>,
                                       <<DriverInfo(s_NvDriver, "update_available")>>),
             <<"Driver collection error">>)}

\* GameLauncherDetector.detect_all_launchers / get_errors
LauncherOutcomes ==
    {Raises, Returns(GameLauncherResult(<<LauncherInfo(TRUE, FALSE)>>, <<"Steam">>, 100), <<>>),
     Returns(GameLauncherResult(<<LauncherInfo(TRUE, TRUE), LauncherInfo(TRUE, TRUE), LauncherInfo(FALSE, TRUE)>>,
                                <<"Steam", "Epic Games", "Battle.net", "GOG Galaxy">>, 600),
             <<"Registry read error">>)}

\* NetworkDiagnostics.run_diagnostics / get_errors
NetworkOutcomes ==
    {Raises, Returns(NetworkDiagnosticsResult(TRUE, "ethernet", 20, <<30>>, <<>>), <<>>),
     Returns(NetworkDiagnosticsResult(TRUE, "wifi", 120, <<200>>, <<s_DnsSlow>>), <<"Adapter collection error">>)}

(***************************************************************************)
(* Spec: DiagnosticAgent is constructed and run_full_diagnostic runs once. *)
(* core/agent.py as committed leaves the class body at line 200 and never  *)
(* binds the name logging; the methods after line 204 are taken as methods *)
(* of the class, and logging_bound says whether the module that is loaded  *)
(* has the name bound.                                                     *)
(***************************************************************************)
Init ==
    /\ pc = "start"
    /\ logging_bound \in BOOLEAN
    /\ wmi_available \in BOOLEAN
    /\ quick_mode = "unset"
    /\ self_errors = <<>>
    /\ locals = NoLocals
    /\ invoked = <<>>
    /\ faulted = {}
    /\ produced = NoLocals
    /\ exception = ""
    /\ worker = [state |-> "none", output |-> <<>>]
    /\ tmp_file = "none"
    /\ hw_step = [outcome |-> "none", base |-> 0]
    /\ self_snapshot = <<>>
    /\ self_issues = <<>>
    /\ run_result = <<>>
    /\ issue_ids = <<>>
    /\ reanalysis = <<>>
    /\ ResultIdle
    /\ AnalysisIdle
    /\ UtilIdle

otherVars == <<resVars, anaVars, utilVars>>

idVars == <<issue_ids, reanalysis>>

\* __main__.py 94: DiagnosticAgent(ui=ui, verbose=args.verbose,
\* quick_mode=args.quick); __init__ (agent.py 34) takes no such parameter
MainConstruct ==
    /\ pc = "start"
    /\ \E quick \in {"on", "off"} : quick_mode' = quick
    /\ exception' = "TypeError"
    /\ pc' = "ctor_raised"
    /\ UNCHANGED <<logging_bound, wmi_available, self_errors, locals, invoked, faulted, produced, worker,
                   tmp_file, hw_step, self_snapshot, self_issues, run_result, otherVars, idVars>>

\* DiagnosticAgent(ui, verbose): lines 42-57
Construct ==
    /\ pc = "start"
    /\ pc' = "ready"
    /\ self_snapshot' = <<>>
    /\ self_issues' = <<>>
    /\ self_errors' = <<>>
    /\ UNCHANGED <<logging_bound, wmi_available, quick_mode, locals, invoked, faulted, produced, exception,
                   worker, tmp_file, hw_step, run_result, otherVars, idVars>>

\* lines 66-72
RunStart ==
    /\ pc = "ready"
    /\ pc' = "windows"
    /\ UNCHANGED <<logging_bound, wmi_available, quick_mode, self_errors, locals, invoked, faulted, produced,
                   exception, worker, tmp_file, hw_step, self_snapshot, self_issues, run_result, otherVars, idVars>>

\* line 73, lines 131-185
CollectWindowsInfo ==
    /\ pc = "windows"
    /\ invoked' = Append(invoked, "WindowsInfo")
    /\ IF ~wmi_available
       THEN /\ locals' = [locals EXCEPT !.windows_info = <<_collect_windows_fallback>>]
            /\ produced' = [produced EXCEPT !.windows_info = <<_collect_windows_fallback>>]
            /\ pc' = "hardware"
            /\ UNCHANGED <<self_errors, faulted, exception>>
       ELSE \E os_info \in OsInfoChoices :
            IF os_info = <<>>
            THEN \* line 147 raises AttributeError, caught at 181; line 185
                 \* raises TypeError: windows_data lacks the required fields
                 /\ self_errors' = Append(self_errors, "Windows info collection error")
                 /\ faulted' = faulted \cup {"WindowsInfo"}
                 /\ exception' = "TypeError"
                 /\ pc' = "raised"
                 /\ UNCHANGED <<locals, produced>>
            ELSE LET info == WindowsInfo(os_info[1].Caption, os_info[1].BuildNumber,
                                         edition_of(os_info[1].Caption), os_info[1].OSArchitecture)
                 IN  /\ locals' = [locals EXCEPT !.windows_info = <<info>>]
                     /\ produced' = [produced EXCEPT !.windows_info = <<info>>]
                     /\ pc' = "hardware"
                     /\ UNCHANGED <<self_errors, faulted, exception>>
    /\ UNCHANGED <<logging_bound, wmi_available, quick_mode, worker, tmp_file, hw_step, self_snapshot,
                   self_issues, run_result, otherVars, idVars>>

\* the hardware step has returned: lines 263, 77
HardwareReturns(r) ==
    /\ locals' = [locals EXCEPT !.hardware_snapshot = <<r.snapshot>>]
    /\ produced' = [produced EXCEPT !.hardware_snapshot = IF r.outcome = "ok" THEN <<r.snapshot>> ELSE <<>>]
    /\ faulted' = IF r.outcome = "ok" THEN faulted ELSE faulted \cup {"Hardware"}
    /\ self_errors' = r.errors
    /\ tmp_file' = r.tmp
    /\ hw_step' = [outcome |-> r.outcome, base |-> Len(self_errors)]
    /\ pc' = "event_logs"

\* line 77, lines 206-234: up to the start of the worker
HardwareStart ==
    /\ pc = "hardware"
    /\ invoked' = Append(invoked, "Hardware")
    /\ IF ~logging_bound
       THEN \* line 208, outside the try
            /\ exception' = "NameError"
            /\ pc' = "raised"
            /\ UNCHANGED <<locals, produced, faulted, self_errors, tmp_file, hw_step, worker>>
       ELSE \E launch \in {"ok", "tempfile_fails", "run_fails"} :
            IF launch = "ok"
            THEN /\ worker' = [state |-> "running", output |-> <<>>]
                 /\ tmp_file' = "exists"
                 /\ hw_step' = [outcome |-> "none", base |-> Len(self_errors)]
                 /\ pc' = "hw_wait"
                 /\ UNCHANGED <<locals, produced, faulted, self_errors, exception>>
            ELSE /\ HardwareReturns(hardware_step(launch, worker, TRUE, self_errors))
                 /\ UNCHANGED <<worker, exception>>
    /\ UNCHANGED <<logging_bound, wmi_available, quick_mode, self_snapshot, self_issues, run_result, otherVars, idVars>>

\* the worker process ends by itself
WorkerExit ==
    /\ pc = "hw_wait"
    /\ worker.state = "running"
    /\ worker' \in WorkerExits
    /\ UNCHANGED <<pc, logging_bound, wmi_available, quick_mode, self_errors, locals, invoked, faulted, produced,
                   exception, tmp_file, hw_step, self_snapshot, self_issues, run_result, otherVars, idVars>>

\* lines 236-254, 259-263: subprocess.run has returned
HardwareCollect ==
    /\ pc = "hw_wait"
    /\ worker.state \in {"exited0", "exited1"}
    /\ \E unlink_ok \in BOOLEAN : HardwareReturns(hardware_step("collect", worker, unlink_ok, self_errors))
    /\ UNCHANGED <<logging_bound, wmi_available, quick_mode, invoked, exception, worker, self_snapshot,
                   self_issues, run_result, otherVars, idVars>>

\* lines 256-258: the timeout expires, subprocess.run kills the worker and
\* raises TimeoutExpired
HardwareTimeout ==
    /\ pc = "hw_wait"
    /\ run_timeout_enabled(worker)
    /\ worker' = [worker EXCEPT !.state = "killed"]
    /\ HardwareReturns(hardware_step("timeout", worker, TRUE, self_errors))
    /\ UNCHANGED <<logging_bound, wmi_available, quick_mode, invoked, exception, self_snapshot, self_issues,
                   run_result, otherVars, idVars>>

\* a collector step of lines 270-358: the call in a try, get_errors()
\* appended on success, the default and one error message on an exception
PhaseTwoStep(name, slot, outcomes, default, message, next_pc) ==
    /\ invoked' = Append(invoked, name)
    /\ \E o \in outcomes :
         IF o.raises
         THEN /\ locals' = [locals EXCEPT ![slot] = <<default>>]
              /\ self_errors' = Append(self_errors, message)
              /\ faulted' = faulted \cup {name}
              /\ UNCHANGED produced
         ELSE /\ locals' = [locals EXCEPT ![slot] = <<o.value>>]
              /\ produced' = [produced EXCEPT ![slot] = <<o.value>>]
              /\ self_errors' = self_errors \o o.errors
              /\ UNCHANGED faulted
    /\ pc' = next_pc
    /\ UNCHANGED <<logging_bound, wmi_available, quick_mode, exception, worker, tmp_file, hw_step,
                   self_snapshot, self_issues, run_result, otherVars, idVars>>

\* line 81, lines 270-290
CollectEventLogs ==
    /\ pc = "event_logs"
    /\ PhaseTwoStep("EventLogs", "event_summary", EventOutcomes, DefaultEventSummary,
                    "Event log collection error", "drivers")

\* line 85, lines 292-312
CheckDrivers ==
    /\ pc = "drivers"
    /\ PhaseTwoStep("Drivers", "driver_result", DriverOutcomes, DefaultDriverResult,
                    "Driver check error", "launchers")

\* line 89, lines 314-333
DetectLaunchers ==
    /\ pc = "launchers"
    /\ PhaseTwoStep("Launchers", "launcher_result", LauncherOutcomes, DefaultLauncherResult,
                    "Launcher detection error", "network")

\* line 93, lines 335-358
RunNetworkDiagnostics ==
    /\ pc = "network"
    /\ PhaseTwoStep("Network", "network_result", NetworkOutcomes, DefaultNetworkResult,
                    "Network diagnostics error", "snapshot")

\* lines 96-104: the snapshot is built from the windows and hardware
\* results; the phase 2 fields keep their default None
CreateSnapshot ==
    /\ pc = "snapshot"
    /\ self_snapshot' = <<SystemSnapshot(now, locals.hardware_snapshot, locals.windows_info[1], self_errors,
                                         <<>>, <<>>, <<>>, <<>>, {}, <<>>, <<>>, <<>>)>>
    /\ pc' = "store_phase2"
    /\ UNCHANGED <<logging_bound, wmi_available, quick_mode, self_errors, locals, invoked, faulted, produced,
                   exception, worker, tmp_file, hw_step, self_issues, run_result, otherVars, idVars>>

\* lines 107-112: the four phase 2 results are assigned on the snapshot
StorePhase2 ==
    /\ pc = "store_phase2"
    /\ self_snapshot' = <<[self_snapshot[1] EXCEPT !.event_summary = locals.event_summary,
                                                   !.driver_result = locals.driver_result,
                                                   !.launcher_result = locals.launcher_result,
                                                   !.network_result = locals.network_result]>>
    /\ pc' = "analyze"
    /\ UNCHANGED <<logging_bound, wmi_available, quick_mode, self_errors, locals, invoked, faulted, produced,
                   exception, worker, tmp_file, hw_step, self_issues, run_result, otherVars, idVars>>

\* lines 115-116
AnalyzeForIssues ==
    /\ pc = "analyze"
    /\ self_issues' = _analyze_for_issues(self_snapshot)
    /\ issue_ids' = generated_ids(_analyze_for_issues(self_snapshot), 0)
    /\ pc' = "result"
    /\ UNCHANGED <<logging_bound, wmi_available, quick_mode, self_errors, locals, invoked, faulted, produced,
                   exception, worker, tmp_file, hw_step, self_snapshot, run_result, reanalysis, otherVars>>

\* lines 119-129: the result is built, displayed and returned
CreateResult ==
    /\ pc = "result"
    /\ run_result' = <<DiagnosticResult(self_snapshot[1].timestamp, self_issues, 0, 0, 0, 0)>>
    /\ pc' = "returned"
    /\ UNCHANGED <<logging_bound, wmi_available, quick_mode, self_errors, locals, invoked, faulted, produced,
                   exception, worker, tmp_file, hw_step, self_snapshot, self_issues, otherVars, idVars>>

\* a second call of _analyze_for_issues (lines 360-408) on the agent after
\* the run, its snapshot unchanged; the clock has moved on by then
Reanalyze ==
    /\ pc = "returned"
    /\ reanalysis = <<>>
    /\ \E later \in 1..MaxLater :
         reanalysis' = <<[issues |-> _analyze_for_issues(self_snapshot),
                          ids |-> generated_ids(_analyze_for_issues(self_snapshot), later)]>>
    /\ UNCHANGED <<pc, logging_bound, wmi_available, quick_mode, self_errors, locals, invoked, faulted, produced,
                   exception, worker, tmp_file, hw_step, self_snapshot, self_issues, run_result, issue_ids, otherVars>>

\* the steps run_full_diagnostic and its caller take
AgentStep ==
    \/ MainConstruct
    \/ Construct
    \/ RunStart
    \/ CollectWindowsInfo
    \/ HardwareStart
    \/ HardwareCollect
    \/ HardwareTimeout
    \/ CollectEventLogs
    \/ CheckDrivers
    \/ DetectLaunchers
    \/ RunNetworkDiagnostics
    \/ CreateSnapshot
    \/ StorePhase2
    \/ AnalyzeForIssues
    \/ CreateResult
    \/ Reanalyze

Next == AgentStep \/ WorkerExit

Spec == Init /\ [][Next]_vars

\* The agent is one sequential thread: a step that can be taken is taken.
\* Nothing makes the worker process end.
FairSpec == Spec /\ WF_vars(AgentStep)

(***************************************************************************)
(* C3 .. C7, C9                                                            *)
(***************************************************************************)
\* the collectors that have an empty default, and where their result lies
Defaulted == {"Hardware", "EventLogs", "Drivers", "Launchers", "Network"}

SlotOf(name) ==
    CASE name = "WindowsInfo" -> "windows_info"
      [] name = "Hardware" -> "hardware_snapshot"
      [] name = "EventLogs" -> "event_summary"
      [] name = "Drivers" -> "driver_result"
      [] name = "Launchers" -> "launcher_result"
      [] name = "Network" -> "network_result"

DefaultOf(name) ==
    CASE name = "Hardware" -> EmptyHardwareSnapshot
      [] name = "EventLogs" -> DefaultEventSummary
      [] name = "Drivers" -> DefaultDriverResult
      [] name = "Launchers" -> DefaultLauncherResult
      [] name = "Network" -> DefaultNetworkResult

InSnapshot(sn, name) ==
    CASE name = "WindowsInfo" -> <<sn.windows>>
      [] name = "Hardware" -> sn.hardware
      [] name = "EventLogs" -> sn.event_summary
      [] name = "Drivers" -> sn.driver_result
      [] name = "Launchers" -> sn.launcher_result
      [] name = "Network" -> sn.network_result

\* C3: when a collector raises or crashes during run_full_diagnostic, no
\* exception reaches the caller, and the DiagnosticResult that is returned
\* has a snapshot with a non-empty errors_encountered, the failed collector's
\* empty default in its slot and every other collector's data as returned.
C3_CollectorFaultIsolated ==
    faulted # {} =>
        /\ pc # "raised"
        /\ pc = "returned" =>
              /\ run_result # <<>>
              /\ self_snapshot[1].errors_encountered # <<>>
              /\ \A name \in Defaulted \cap faulted : InSnapshot(self_snapshot[1], name) = <<DefaultOf(name)>>
              /\ \A name \in (Defaulted \cup {"WindowsInfo"}) \ faulted :
                    InSnapshot(self_snapshot[1], name) = produced[SlotOf(name)]

EightCollectors == <<"WindowsInfo", "Hardware", "EventLogs", "Drivers", "Launchers", "Network",
                     "Prerequisites", "ProcessAnalysis">>

\* C6: every run invokes WindowsInfo, Hardware, EventLogs, Drivers,
\* Launchers, Network, Prerequisites, ProcessAnalysis and, unless quick mode
\* is on, Benchmarks, in this order and once each, whichever of them fail.
C6_FixedCollectorOrder ==
    pc \in {"returned", "raised"} =>
        invoked = IF quick_mode = "on" THEN EightCollectors ELSE EightCollectors \o <<"Benchmarks">>

\* C7: quick mode is chosen when the orchestrator is constructed; with quick
\* mode on, Benchmarks is never invoked and the snapshot has no benchmark
\* result; with quick mode off, Benchmarks is invoked once, as the last
\* collector, before analysis.
C7_QuickModeSwitch ==
    /\ quick_mode \in {"on", "off"} => pc # "ctor_raised"
    /\ quick_mode = "on" =>
          /\ \A i \in 1..Len(invoked) : invoked[i] # "Benchmarks"
          /\ self_snapshot # <<>> => self_snapshot[1].benchmark_result = <<>>
    /\ (quick_mode # "on" /\ pc \in {"analyze", "result", "returned"}) =>
          /\ Cardinality({i \in 1..Len(invoked) : invoked[i] = "Benchmarks"}) = 1
          /\ invoked[Len(invoked)] = "Benchmarks"

\* C9: the issues of the DiagnosticResult that run_full_diagnostic returns
\* are what analyze_for_issues returns for the run's snapshot, be it the
\* snapshot as the run built it or that snapshot with the three attributes
\* the engine reads beyond the declared fields set to None.
C9_ResultIssuesAreEngineOutput ==
    pc = "returned" =>
        \E sn \in {self_snapshot[1], [self_snapshot[1] EXCEPT !.attrs = ExtraAttrs]} :
            /\ ~analyze_for_issues(sn, now).raised
            /\ run_result[1].issues = analyze_for_issues(sn, now).issues

(***************************************************************************)
(* C11 .. C20                                                              *)
(***************************************************************************)
\* C11: issue ids are stable under re-analysis: a second analysis of the
\* identical snapshot gives the same issues, and each of them the id the
\* first analysis gave it, also where Issue generates the id itself.
C11_IdsStableUnderReanalysis ==
    reanalysis # <<>> =>
        /\ reanalysis[1].issues = self_issues
        /\ reanalysis[1].ids = issue_ids

IsDefaultSnapshot(snapshot) ==
    /\ snapshot.hardware \in {<<>>, <<EmptyHardwareSnapshot>>}
    /\ snapshot.event_summary = <<>> /\ snapshot.driver_result = <<>>
    /\ snapshot.launcher_result = <<>> /\ snapshot.network_result = <<>>
    /\ snapshot.attrs = {}

\* C13: for the empty/default snapshot analyze_for_issues raises nothing and
\* returns an empty issue list, and the health score of the result is 100.
C13_DefaultSnapshotNoIssues ==
    \A k \in 1..Len(calls) :
        IsDefaultSnapshot(snap) =>
            /\ ~calls[k].result.raised
            /\ calls[k].result.issues = <<>>
            /\ health_score(DiagnosticResult(snap.timestamp, calls[k].result.issues, 0, 0, 0, 0)) = 100

\* the issues of the rules that read declared fields of the snapshot only
DeclaredRuleIssues(snapshot, today) ==
    analysis_hardware(snapshot, today) \o analysis_network(snapshot) \o analysis_drivers(snapshot)
      \o analysis_event_logs(snapshot) \o analysis_launchers(snapshot)

\* C15: if one rule raises while analyze_for_issues runs, the call still
\* returns, and the issues of every other rule are in the returned list.
C15_RuleFaultIsolated ==
    \A k \in 1..Len(calls) :
        /\ ~calls[k].result.raised
        /\ \A i \in 1..Len(DeclaredRuleIssues(snap, calls[k].at)) :
              \E j \in 1..Len(calls[k].result.issues) :
                  calls[k].result.issues[j] = DeclaredRuleIssues(snap, calls[k].at)[i]

\* what the agent's rule for a collector makes of that collector's empty default
IssuesFromDefault(name) ==
    CASE name = "Hardware" ->
             _analyze_for_issues(<<SystemSnapshot(StartDay, <<EmptyHardwareSnapshot>>, BlankSnapshot.windows,
                                                  <<>>, <<>>, <<>>, <<>>, <<>>, {}, <<>>, <<>>, <<>>)>>)
      [] name = "EventLogs" -> _analyze_event_logs(DefaultEventSummary)
      [] name = "Drivers" -> _analyze_drivers(DefaultDriverResult)
      [] name = "Launchers" -> _analyze_launchers(DefaultLauncherResult)
      [] name = "Network" -> _analyze_network(DefaultNetworkResult)

\* C14: a collector fault is never turned into a detected issue: when a
\* collector has failed and its empty default is in the snapshot, the analysis
\* of the run (and analyze_for_issues on the run's snapshot) emits no issue
\* made from that default; the fault shows in errors_encountered only.
C14_FaultIsNoIssue ==
    pc = "returned" =>
        \A name \in Defaulted \cap faulted :
            /\ \A i \in 1..Len(run_result[1].issues) : \A j \in 1..Len(IssuesFromDefault(name)) :
                  run_result[1].issues[i] # IssuesFromDefault(name)[j]
            /\ name = "Network" => analysis_network(self_snapshot[1]) = <<>>

\* C16: in a run the SystemSnapshot is constructed once, after the last
\* collector has returned or defaulted, and from then on no field of it is
\* assigned or changed.
C16_SnapshotFrozenOnceBuilt ==
    [][/\ (self_snapshot = <<>> /\ self_snapshot' # <<>>) => invoked = SubSeq(EightCollectors, 1, 6)
       /\ self_snapshot # <<>> => self_snapshot' = self_snapshot]_vars

\* the issues of a returned list whose title begins with one of the texts
TitledIssues(issues, texts) == SelectSeq(issues, LAMBDA x : x.title[1] \in texts)

\* C17: storage rules of analyze_for_issues: for every storage device with
\* total_gb > 0, usage above 90% yields a critical disk-nearly-full issue and
\* usage above 85% up to 90% a high one, and a system drive of type HDD yields
\* a high system-drive-on-HDD issue.
C17_StorageRules ==
    \A k \in 1..Len(calls) :
        (~calls[k].result.raised /\ snap.hardware # <<>>) =>
            \A i \in 1..Len(snap.hardware[1].storage_devices) :
                LET drive == snap.hardware[1].storage_devices[i]
                    used100 == (drive.total_gb - drive.free_gb) * 100
                    full == SelectSeq(TitledIssues(calls[k].result.issues, {"Drive Nearly Full: "}),
                                      LAMBDA x : x.title[2] = Truncate(drive.model, 30))
                    onHdd == TitledIssues(calls[k].result.issues, {"System Running on Mechanical Hard Drive"})
                IN  /\ (drive.total_gb > 0 /\ used100 > 90 * drive.total_gb) =>
                          \E j \in 1..Len(full) : full[j].severity = "critical"
                    /\ (drive.total_gb > 0 /\ used100 > 85 * drive.total_gb /\ used100 <= 90 * drive.total_gb) =>
                          \E j \in 1..Len(full) : full[j].severity = "high"
                    /\ (drive.total_gb > 0 /\ drive.is_system_drive /\ drive.type = "HDD") =>
                          \E j \in 1..Len(onHdd) : onHdd[j].severity = "high"

\* the temperature the CPU rule reads, NoneInt when the CPU or the value is absent
CpuTemperature(snapshot) ==
    IF snapshot.hardware = <<>> \/ snapshot.hardware[1].cpu = <<>> THEN NoneInt
    ELSE snapshot.hardware[1].cpu[1].temperature_celsius

C20_BenchmarkRule ==
    \A k \in 1..Len(calls) :
        (~calls[k].result.raised /\ snap.benchmark_result # <<>>) =>
            LET results == SelectSeq(snap.benchmark_result[1].results,
                                     LAMBDA b : b.name = "Disk I/O (Seq)" /\ ~b.error /\ b.has_write)
                slow == TitledIssues(calls[k].result.issues, {"Poor Disk Write Performance", "Very Poor Disk Performance"})
            IN  /\ Len(slow) <= Len(results)
                /\ \A i \in 1..Len(results) :
                      LET write_speed == results[i].write_speed_mbps IN
                      /\ (write_speed > 0 /\ write_speed < 50) => \E j \in 1..Len(slow) : slow[j].severity = "high"
                      /\ (write_speed >= 50 /\ write_speed < 100) => \E j \in 1..Len(slow) : slow[j].severity = "medium"
                      /\ (Len(results) = 1 /\ write_speed >= 100) => slow = <<>>

(***************************************************************************)
(* SpecWmi: utils/wmi_helper.py.  One WMIHelper answers up to MaxQueries   *)
(* calls of query; each pass of the retry loop is a step.  connection says *)
(* whether _connection is set, query_str whether the local name is bound.  *)
(***************************************************************************)
\* WMIQueryResult(success, error_message, retry_count)
WMIQueryResult(success, error_message, retry_count) ==
    [success |-> success, error_message |-> error_message, retry_count |-> retry_count]

\* what a pass of the loop can meet: the query answers; _get_connection raises
\* RuntimeError (lines 74-82, only when no connection is cached); conn.query
\* raises wmi.x_wmi; conn.query or the conversion raises another exception
AttemptOutcomes(connection) ==
    {"answer", "x_wmi", "Exception"} \cup (IF connection THEN {} ELSE {"RuntimeError"})

InitWmi ==
    /\ \E max_retries \in 0..MaxRetries, available \in BOOLEAN : wmi_self = WMIHelper(max_retries, available)
    /\ wmi_call = NoQuery
    /\ ResultIdle /\ AnalysisIdle /\ AgentIdle /\ RulesIdle /\ DriversIdle /\ LaunchersIdle /\ ProcessesIdle /\ RunsIdle

\* query, lines 98-105: the availability test and the locals
QueryEnter ==
    /\ wmi_call.pc \in {"idle", "returned"}
    /\ wmi_call.number < MaxQueries
    /\ wmi_call' =
         IF ~wmi_self.is_available
         THEN [NoQuery EXCEPT !.pc = "returned", !.number = wmi_call.number + 1,
                              !.result = <<WMIQueryResult(FALSE, "WMI is not available on this system", 0)>>]
         ELSE [NoQuery EXCEPT !.pc = "loop", !.number = wmi_call.number + 1]
    /\ UNCHANGED <<wmi_self, resVars, anaVars, agentVars, ruleVars, drvVars, lchVars, procVars, agent_runs>>

\* the exception handlers, lines 147-170, entered with the connection as the
\* try block left it: last_error is set, the log line reads query_str, and
\* before any pass but the last the connection is dropped
QueryHandled(error, connection) ==
    IF ~wmi_call.query_str /\ error = "RuntimeError"
    THEN /\ wmi_call' = [wmi_call EXCEPT !.pc = "raised", !.last_error = error]
         /\ wmi_self' = [wmi_self EXCEPT !.connection = connection]
    ELSE /\ wmi_call' = [wmi_call EXCEPT !.last_error = error, !.attempt = @ + 1,
                                         !.query_str = (@ \/ error # "RuntimeError")]
         /\ wmi_self' = [wmi_self EXCEPT !.connection = (connection /\ ~(wmi_call.attempt < wmi_self.max_retries - 1))]

\* one pass of for attempt in range(self.max_retries), lines 107-170
QueryAttempt ==
    /\ wmi_call.pc = "loop"
    /\ wmi_call.attempt < wmi_self.max_retries
    /\ \E outcome \in AttemptOutcomes(wmi_self.connection) :
         CASE outcome = "answer" ->
                  /\ wmi_self' = [wmi_self EXCEPT !.connection = TRUE, !.query_count = @ + 1]
                  /\ wmi_call' = [wmi_call EXCEPT !.pc = "returned", !.query_str = TRUE, !.attempt = @ + 1,
                                                  !.result = <<WMIQueryResult(TRUE, "", wmi_call.attempt)>>]
           [] outcome = "RuntimeError" -> QueryHandled(outcome, FALSE)
           [] OTHER -> QueryHandled(outcome, TRUE)
    /\ UNCHANGED <<resVars, anaVars, agentVars, ruleVars, drvVars, lchVars, procVars, agent_runs>>

\* lines 172-181: all retries failed
QueryExhausted ==
    /\ wmi_call.pc = "loop"
    /\ wmi_call.attempt >= wmi_self.max_retries
    /\ wmi_self' = [wmi_self EXCEPT !.error_count = @ + 1]
    /\ wmi_call' = [wmi_call EXCEPT !.pc = "returned",
                                    !.result = <<WMIQueryResult(FALSE, wmi_call.last_error, wmi_self.max_retries)>>]
    /\ UNCHANGED <<resVars, anaVars, agentVars, ruleVars, drvVars, lchVars, procVars, agent_runs>>

NextWmi == QueryEnter \/ QueryAttempt \/ QueryExhausted

SpecWmi == InitWmi /\ [][NextWmi]_vars

\* C21: query never raises to its caller: whatever fails, on any attempt
\* including the first, it makes at most max_retries attempts, and a call
\* that did not succeed returns a WMIQueryResult with success = false and
\* the error message.
C21_QueryNeverRaises ==
    /\ wmi_call.pc # "raised"
    /\ wmi_call.attempt <= wmi_self.max_retries
    /\ wmi_call.pc = "returned" =>
          /\ wmi_call.result # <<>>
          /\ ~wmi_call.result[1].success => wmi_call.result[1].error_message # ""

(***************************************************************************)
(* SpecRules: core/rules.py.  A CustomRuleEngine is constructed over a     *)
(* rules file and then receives up to MaxRuleCalls calls.  A dictionary of *)
(* a file holds its 'id' as an Optional (a required key may be missing).   *)
(***************************************************************************)
\* to_dict, lines 26-38, and json.dump / json.load of it
to_dict(rule) == [id |-> <<rule.id>>, enabled |-> rule.enabled]

\* from_dict, lines 40-53: data['id'] raises KeyError when the key is missing
from_dict_raises(data) == data.id = <<>>

from_dict(data) == CustomRule(data.id[1], data.enabled, 0)

\* the contents custom_rules.json or a YAML file can have
FileChoices ==
    {File("missing", <<>>), File("unparseable", <<>>), File("object", <<>>), File("list", <<>>),
     File("list", <<to_dict(CustomRule("custom_a", TRUE, 0))>>),
     File("list", <<[id |-> <<>>, enabled |-> TRUE], to_dict(CustomRule("custom_b", TRUE, 0))>>),
     File("list", <<to_dict(CustomRule("custom_a", FALSE, 0)), to_dict(CustomRule("custom_low_disk_space_custom", TRUE, 0))>>)}

\* the rules handed to add_rule, and the keyword arguments of update_rule
RuleChoices == {CustomRule("custom_a", TRUE, 0), CustomRule("custom_high_memory_custom", FALSE, 0)}

RuleIdChoices == {"custom_a", "custom_high_memory_custom", "custom_missing"}

KwargChoices == {[key |-> "id", value |-> "custom_a"], [key |-> "id", value |-> "custom_low_disk_space_custom"],
                 [key |-> "enabled", value |-> "False"], [key |-> "priority", value |-> "1"]}

\* save_rules, lines 145-153: the file after the call
save_rules(rules, file, write_ok) ==
    IF write_ok THEN File("list", [i \in 1..Len(rules) |-> to_dict(rules[i])]) ELSE file

\* load_rules, lines 125-143: the rule list it leaves
load_rules(file, examples) ==
    CASE file.state = "missing" -> examples
      [] file.state = "unparseable" -> examples
      [] file.state = "object" -> <<>>
      [] OTHER -> IF \E i \in 1..Len(file.data) : from_dict_raises(file.data[i]) THEN examples
                  ELSE [i \in 1..Len(file.data) |-> from_dict(file.data[i])]

\* add_rule, lines 155-170: the list and the value returned
add_rule(rules, rule, write_ok) ==
    IF \E i \in 1..Len(rules) : rules[i].id = rule.id THEN [rules |-> rules, ret |-> FALSE]
    ELSE [rules |-> Append(rules, rule), ret |-> write_ok]

\* setattr(rule, key, value) where hasattr(rule, key), lines 201-205
setattr(rule, kwarg) ==
    CASE kwarg.key = "id" -> [rule EXCEPT !.id = kwarg.value]
      [] kwarg.key = "enabled" -> [rule EXCEPT !.enabled = (kwarg.value = "True")]
      [] OTHER -> rule

\* the position of the first rule with the id, 0 when there is none
first_with(rules, rule_id) ==
    IF \E i \in 1..Len(rules) : rules[i].id = rule_id
    THEN CHOOSE i \in 1..Len(rules) : rules[i].id = rule_id /\ \A j \in 1..(i - 1) : rules[j].id # rule_id
    ELSE 0

\* the loop of import_rules_from_yaml, lines 229-236
RECURSIVE import_loop(_, _, _, _)
import_loop(rules, data, write_ok, imported) ==
    IF data = <<>> THEN [rules |-> rules, imported |-> imported]
    ELSE IF from_dict_raises(Head(data)) THEN import_loop(rules, Tail(data), write_ok, imported)
    ELSE LET added == add_rule(rules, from_dict(Head(data)), write_ok)
         IN  import_loop(added.rules, Tail(data), write_ok, IF added.ret THEN imported + 1 ELSE imported)

Called(op, ret) ==
    [op |-> op, ret |-> ret, rules_before |-> self_rules, file_before |-> rules_file, number |-> last_call.number + 1]

InitRules ==
    /\ self_rules = <<>>
    /\ rules_file \in FileChoices
    /\ example_rules = EXAMPLE_RULES
    /\ last_call = NoCall
    /\ ResultIdle /\ AnalysisIdle /\ AgentIdle /\ WmiIdle /\ DriversIdle /\ LaunchersIdle /\ ProcessesIdle /\ RunsIdle

\* CustomRuleEngine(rules_dir), lines 106-123, and load_rules called again
LoadRules ==
    /\ last_call.number < MaxRuleCalls
    /\ \E write_ok \in BOOLEAN :
         /\ self_rules' = load_rules(rules_file, example_rules)
         /\ rules_file' = IF rules_file.state = "missing" THEN save_rules(example_rules, rules_file, write_ok)
                          ELSE rules_file
    /\ last_call' = Called("load_rules", "None")
    /\ UNCHANGED <<example_rules, wmi_self, wmi_call, resVars, anaVars, agentVars, drvVars, lchVars, procVars, agent_runs>>

AddRule ==
    /\ last_call.op # "none"
    /\ last_call.number < MaxRuleCalls
    /\ \E rule \in RuleChoices, write_ok \in BOOLEAN :
         LET added == add_rule(self_rules, rule, write_ok) IN
         /\ self_rules' = added.rules
         /\ rules_file' = IF added.rules # self_rules THEN save_rules(added.rules, rules_file, write_ok) ELSE rules_file
         /\ last_call' = Called("add_rule", IF added.ret THEN "True" ELSE "False")
    /\ UNCHANGED <<example_rules, wmi_self, wmi_call, resVars, anaVars, agentVars, drvVars, lchVars, procVars, agent_runs>>

\* remove_rule, lines 172-187
RemoveRule ==
    /\ last_call.op # "none"
    /\ last_call.number < MaxRuleCalls
    /\ \E rule_id \in RuleIdChoices, write_ok \in BOOLEAN :
         LET kept == SelectSeq(self_rules, LAMBDA r : r.id # rule_id) IN
         /\ self_rules' = kept
         /\ rules_file' = IF Len(kept) < Len(self_rules) THEN save_rules(kept, rules_file, write_ok) ELSE rules_file
         /\ last_call' = Called("remove_rule", IF Len(kept) < Len(self_rules) /\ write_ok THEN "True" ELSE "False")
    /\ UNCHANGED <<example_rules, wmi_self, wmi_call, resVars, anaVars, agentVars, drvVars, lchVars, procVars, agent_runs>>

\* update_rule, lines 189-206: the first rule with the id is changed in place;
\* an object shared with EXAMPLE_RULES (load_rules copies the list, not the
\* rules) is changed there too
UpdateRule ==
    /\ last_call.op # "none"
    /\ last_call.number < MaxRuleCalls
    /\ \E rule_id \in RuleIdChoices, kwarg \in KwargChoices, write_ok \in BOOLEAN :
         LET at == first_with(self_rules, rule_id) IN
         IF at = 0
         THEN /\ last_call' = Called("update_rule", "False")
              /\ UNCHANGED <<self_rules, rules_file, example_rules>>
         ELSE LET updated == [self_rules EXCEPT ![at] = setattr(@, kwarg)] IN
              /\ self_rules' = updated
              /\ example_rules' = IF self_rules[at].builtin = 0 THEN example_rules
                                  ELSE [example_rules EXCEPT ![self_rules[at].builtin] = setattr(@, kwarg)]
              /\ rules_file' = save_rules(updated, rules_file, write_ok)
              /\ last_call' = Called("update_rule", IF write_ok THEN "True" ELSE "False")
    /\ UNCHANGED <<wmi_self, wmi_call, resVars, anaVars, agentVars, drvVars, lchVars, procVars, agent_runs>>

\* import_rules_from_yaml, lines 212-241
ImportRulesFromYaml ==
    /\ last_call.op # "none"
    /\ last_call.number < MaxRuleCalls
    /\ \E yaml \in FileChoices, write_ok \in BOOLEAN :
         IF yaml.state # "list"
         THEN /\ last_call' = Called("import_rules_from_yaml", "0")
              /\ UNCHANGED <<self_rules, rules_file>>
         ELSE LET done == import_loop(self_rules, yaml.data, write_ok, 0) IN
              /\ self_rules' = done.rules
              /\ rules_file' = IF done.rules # self_rules THEN save_rules(done.rules, rules_file, write_ok) ELSE rules_file
              /\ last_call' = Called("import_rules_from_yaml", ToString(done.imported))
    /\ UNCHANGED <<example_rules, wmi_self, wmi_call, resVars, anaVars, agentVars, drvVars, lchVars, procVars, agent_runs>>

NextRules == LoadRules \/ AddRule \/ RemoveRule \/ UpdateRule \/ ImportRulesFromYaml

SpecRules == InitRules /\ [][NextRules]_vars

\* C22: loading the rule file is never fatal and falls back to the built-in
\* defaults: when the file is missing or malformed (not parseable, parseable
\* but not a list of rules, or a rule lacking a required field) load_rules
\* leaves the engine with the built-in default rules.
C22_MalformedFileGivesDefaults ==
    (/\ last_call.op = "load_rules"
     /\ \/ last_call.file_before.state \in {"missing", "unparseable", "object"}
        \/ \E i \in 1..Len(last_call.file_before.data) : from_dict_raises(last_call.file_before.data[i]))
        => self_rules = example_rules

\* C24: rule ids stay unique: from a rule list with pairwise distinct ids, no
\* sequence of add_rule, remove_rule, update_rule and import_rules_from_yaml
\* calls leaves two rules of the engine with the same id.
C24_RuleIdsUnique ==
    \A i, j \in 1..Len(self_rules) : self_rules[i].id = self_rules[j].id => i = j

\* C25: add_rule returns True only if the rule was added, and a call that
\* returns False (duplicate id, or the rule file could not be written) leaves
\* the engine's rule list exactly as it was before the call.
C25_FailedAddLeavesRules ==
    last_call.op = "add_rule" =>
        /\ last_call.ret = "True" => (Len(self_rules) = Len(last_call.rules_before) + 1
                                      /\ SubSeq(self_rules, 1, Len(last_call.rules_before)) = last_call.rules_before)
        /\ last_call.ret = "False" => self_rules = last_call.rules_before

(***************************************************************************)
(* SpecDrivers: collectors/drivers.py.  check_all_drivers runs over the    *)
(* list _collect_driver_info returned (with the repository's WMIHelper,    *)
(* which has no query_raw, that list is empty; a helper that answers       *)
(* query_raw yields the lists below).  A version string is the sequence of *)
(* its numeric parts, as re.findall(r'\d+') leaves it; 'Unknown' is <<>>.  *)
(***************************************************************************)
Unknown == <<>>

\* DriverInfo as the parsers build it, lines 33-50: status UNKNOWN
ParsedDriver(name, version, is_signed, category) ==
    [name |-> name, version |-> version, is_signed |-> is_signed, category |-> category, status |-> "unknown"]

\* LATEST_DRIVERS, lines 80-108
LATEST_DRIVERS ==
    [nvidia |-> [game_ready |-> <<551, 23>>, minimum_gaming |-> <<545, 0>>],
     amd |-> [adrenalin |-> <<24, 1, 1>>, minimum_gaming |-> <<23, 12, 1>>],
     intel |-> [arc |-> <<31, 0, 101, 5084>>, minimum_gaming |-> <<31, 0, 101, 5000>>],
     realtek |-> [minimum |-> <<6, 0, 9000, 0>>]]

\* _compare_versions, lines 491-514: the shorter version is padded with zeros
RECURSIVE _compare_versions(_, _)
_compare_versions(version1, version2) ==
    IF version1 = <<>> /\ version2 = <<>> THEN 0
    ELSE LET a == IF version1 = <<>> THEN 0 ELSE Head(version1)
             b == IF version2 = <<>> THEN 0 ELSE Head(version2)
         IN  IF a < b THEN 0 - 1
             ELSE IF a > b THEN 1
             ELSE _compare_versions(IF version1 = <<>> THEN <<>> ELSE Tail(version1),
                                    IF version2 = <<>> THEN <<>> ELSE Tail(version2))

\* the vendor whose minimum and latest versions _analyze_gpu_driver reads,
\* lines 389-433, "" for a name that matches no branch
gpu_vendor(driver) ==
    LET driver_name == Lower(driver.name) IN
    IF Contains(driver_name, <<"n", "v", "i", "d", "i", "a">>) \/ Contains(driver_name, <<"g", "e", "f", "o", "r", "c", "e">>)
    THEN "nvidia"
    ELSE IF Contains(driver_name, <<"a", "m", "d">>) \/ Contains(driver_name, <<"r", "a", "d", "e", "o", "n">>)
    THEN "amd"
    ELSE IF Contains(driver_name, <<"i", "n", "t", "e", "l">>)
            /\ (Contains(driver_name, <<"a", "r", "c">>) \/ Contains(driver_name, <<"x", "e">>))
    THEN "intel"
    ELSE ""

\* the vendor's latest version: game_ready, adrenalin or arc
latest_of(vendor) ==
    CASE vendor = "nvidia" -> LATEST_DRIVERS.nvidia.game_ready
      [] vendor = "amd" -> LATEST_DRIVERS.amd.adrenalin
      [] OTHER -> LATEST_DRIVERS.intel.arc

minimum_of(vendor) ==
    CASE vendor = "nvidia" -> LATEST_DRIVERS.nvidia.minimum_gaming
      [] vendor = "amd" -> LATEST_DRIVERS.amd.minimum_gaming
      [] OTHER -> LATEST_DRIVERS.intel.minimum_gaming

\* _analyze_gpu_driver, lines 386-433
_analyze_gpu_driver(driver) ==
    IF gpu_vendor(driver) = "" \/ driver.version = Unknown THEN driver
    ELSE IF _compare_versions(driver.version, minimum_of(gpu_vendor(driver))) < 0
         THEN [driver EXCEPT !.status = "critical"]
    ELSE IF _compare_versions(driver.version, latest_of(gpu_vendor(driver))) < 0
         THEN [driver EXCEPT !.status = "update_available"]
    ELSE [driver EXCEPT !.status = "up_to_date"]

\* _analyze_audio_driver, lines 435-446
_analyze_audio_driver(driver) ==
    IF Contains(Lower(driver.name), <<"r", "e", "a", "l", "t", "e", "k">>) /\ driver.version # Unknown
    THEN IF _compare_versions(driver.version, LATEST_DRIVERS.realtek.minimum) < 0
         THEN [driver EXCEPT !.status = "update_available"]
         ELSE [driver EXCEPT !.status = "up_to_date"]
    ELSE driver

\* _get_latest_version, lines 478-489, as an Optional
_get_latest_version(driver) ==
    LET name_lower == Lower(driver.name) IN
    IF Contains(name_lower, <<"n", "v", "i", "d", "i", "a">>) \/ Contains(name_lower, <<"g", "e", "f", "o", "r", "c", "e">>)
    THEN <<LATEST_DRIVERS.nvidia.game_ready>>
    ELSE IF Contains(name_lower, <<"a", "m", "d">>) \/ Contains(name_lower, <<"r", "a", "d", "e", "o", "n">>)
    THEN <<LATEST_DRIVERS.amd.adrenalin>>
    ELSE IF Contains(name_lower, <<"i", "n", "t", "e", "l">>)
            /\ Contains(name_lower, <<"g", "r", "a", "p", "h", "i", "c", "s">>)
    THEN <<LATEST_DRIVERS.intel.arc>>
    ELSE <<>>

\* _analyze_driver, lines 355-384
_analyze_driver(driver) ==
    LET first == IF driver.category = "gpu" THEN _analyze_gpu_driver(driver)
                 ELSE IF driver.category = "audio" THEN _analyze_audio_driver(driver)
                 ELSE driver
        latest == _get_latest_version(driver)
    IN  IF ~first.is_signed /\ first.category \in {"gpu", "audio"} THEN [first EXCEPT !.status = "critical"]
        ELSE IF latest # <<>> /\ first.version # Unknown
             THEN IF _compare_versions(first.version, latest[1]) < 0
                  THEN [first EXCEPT !.status = "update_available"]
                  ELSE [first EXCEPT !.status = "up_to_date"]
             ELSE first

\* the drivers a collection returns
ParsedDrivers ==
    {ParsedDriver(s_NvDriver, <<540, 10>>, TRUE, "gpu"), ParsedDriver(s_NvDriver, <<540, 10>>, FALSE, "gpu"),
     ParsedDriver(s_NvDriver, <<546, 1>>, TRUE, "gpu"), ParsedDriver(s_NvDriver, <<551, 23>>, TRUE, "gpu"),
     ParsedDriver(s_NvDriver, Unknown, TRUE, "gpu"),
     ParsedDriver(<<"A", "M", "D", " ", "R", "a", "d", "e", "o", "n">>, <<23, 5, 2>>, TRUE, "gpu"),
     ParsedDriver(<<"I", "n", "t", "e", "l", " ", "A", "r", "c">>, <<31, 0, 101, 4000>>, TRUE, "gpu"),
     ParsedDriver(s_Audio, <<6, 0, 8000, 1>>, TRUE, "audio"), ParsedDriver(s_WD, Unknown, FALSE, "other"),
     ParsedDriver(<<"K", "i", "l", "l", "e", "r">>, <<3, 1>>, TRUE, "network")}

InitDrivers ==
    /\ drivers \in BoundedSeq(ParsedDrivers, MaxDrivers)
    /\ driver_check = NoDriverCheck
    /\ ResultIdle /\ AnalysisIdle /\ AgentIdle /\ WmiIdle /\ RulesIdle /\ LaunchersIdle /\ ProcessesIdle /\ RunsIdle

\* check_all_drivers, lines 173-178
CheckStart ==
    /\ driver_check.pc = "idle"
    /\ driver_check' = [driver_check EXCEPT !.pc = "loop", !.result.total_drivers = Len(drivers)]
    /\ UNCHANGED <<drivers, resVars, anaVars, agentVars, wmi_self, wmi_call, ruleVars, lchVars, procVars, agent_runs>>

\* the result after driver is categorized and counted, lines 184-204
counted(result, driver) ==
    LET by_category ==
            CASE driver.category = "gpu" -> [result EXCEPT !.gpu_drivers = Append(@, driver)]
              [] driver.category = "audio" -> [result EXCEPT !.audio_drivers = Append(@, driver)]
              [] driver.category = "network" -> [result EXCEPT !.network_drivers = Append(@, driver)]
              [] OTHER -> [result EXCEPT !.other_drivers = Append(@, driver)]
    IN  CASE driver.status = "up_to_date" -> [by_category EXCEPT !.up_to_date = @ + 1]
          [] driver.status = "update_available" -> [by_category EXCEPT !.update_available = @ + 1]
          [] driver.status = "outdated" -> [by_category EXCEPT !.outdated = @ + 1]
          [] driver.status = "critical" -> [by_category EXCEPT !.critical = @ + 1, !.critical_issues = Append(@, driver)]
          [] OTHER -> [by_category EXCEPT !.unknown = @ + 1]

\* one pass of for driver in drivers, lines 181-204: the driver is analysed
\* in place, categorized and counted, or an exception raised in the pass is
\* caught at lines 210-211 and the result returned as it stands
CheckDriver ==
    /\ driver_check.pc = "loop"
    /\ driver_check.i <= Len(drivers)
    /\ \E raises \in BOOLEAN :
         IF raises
         THEN /\ driver_check' = [driver_check EXCEPT !.pc = "returned", !.errors = Append(@, "Driver check failed")]
              /\ UNCHANGED drivers
         ELSE /\ drivers' = [drivers EXCEPT ![driver_check.i] = _analyze_driver(@)]
              /\ driver_check' = [driver_check EXCEPT !.i = @ + 1,
                                     !.result = counted(@, _analyze_driver(drivers[driver_check.i]))]
    /\ UNCHANGED <<resVars, anaVars, agentVars, wmi_self, wmi_call, ruleVars, lchVars, procVars, agent_runs>>

\* lines 206-213: the recommendations (their number) and the return
CheckFinish ==
    /\ driver_check.pc = "loop"
    /\ driver_check.i > Len(drivers)
    /\ LET result == driver_check.result
           number == (IF result.critical > 0 THEN 1 ELSE 0) + (IF result.update_available > 0 THEN 1 ELSE 0)
                     + (IF \E k \in 1..Len(result.gpu_drivers) :
                              result.gpu_drivers[k].status \in {"update_available", "critical"} THEN 1 ELSE 0)
                     + (IF \E k \in 1..Len(result.audio_drivers) : ~result.audio_drivers[k].is_signed THEN 1 ELSE 0)
       IN  driver_check' = [driver_check EXCEPT !.pc = "returned", !.result.recommendations = number]
    /\ UNCHANGED <<drivers, resVars, anaVars, agentVars, wmi_self, wmi_call, ruleVars, lchVars, procVars, agent_runs>>

NextDrivers == CheckStart \/ CheckDriver \/ CheckFinish

SpecDrivers == InitDrivers /\ [][NextDrivers]_vars

\* C26: every DriverCompatibilityResult check_all_drivers returns, also after
\* an error in the per-driver loop, has its status counts adding up to
\* total_drivers, critical equal to the length of critical_issues, and its
\* four category lists holding total_drivers drivers together.
C26_DriverCountsAddUp ==
    driver_check.pc = "returned" =>
        LET result == driver_check.result IN
        /\ result.up_to_date + result.update_available + result.outdated + result.critical + result.unknown
              = result.total_drivers
        /\ result.critical = Len(result.critical_issues)
        /\ Len(result.gpu_drivers) + Len(result.audio_drivers) + Len(result.network_drivers)
              + Len(result.other_drivers) = result.total_drivers

\* C27: a GPU driver whose known version is below its vendor's
\* minimum_gaming version ends the analysis with status critical, signed or
\* not, and is counted in critical and listed in critical_issues.
C27_BelowMinimumIsCritical ==
    \A k \in 1..(driver_check.i - 1) :
        (/\ drivers[k].category = "gpu" /\ gpu_vendor(drivers[k]) # "" /\ drivers[k].version # Unknown
         /\ _compare_versions(drivers[k].version, minimum_of(gpu_vendor(drivers[k]))) < 0)
            => /\ drivers[k].status = "critical"
               /\ \E j \in 1..Len(driver_check.result.critical_issues) :
                     driver_check.result.critical_issues[j] = drivers[k]

(***************************************************************************)
(* SpecLaunchers: collectors/launchers.py.  machine says, per configured   *)
(* launcher type, whether an install path is found ("installed") and       *)
(* whether, in addition, its process is running ("running").               *)
(***************************************************************************)
\* LauncherType, lines 14-28, in definition order, UNKNOWN left out as line 227 does
LauncherType ==
    <<"steam", "epic_games", "ea_app", "ubisoft_connect", "battle_net", "xbox_app", "gog_galaxy",
      "amazon_games", "itch_io", "minecraft_launcher", "riot_client", "rockstar_games">>

\* _get_running_processes, lines 406-418: the launcher types whose process is
\* in the list.  helper is what the detector was constructed with: "none",
\* "WMIHelper" (utils/wmi_helper.py, whose query has no fields parameter, so
\* that line 412 raises TypeError and line 415 swallows it) or "other" (an
\* object whose query accepts fields and succeeds)
_get_running_processes(facts, helper) ==
    IF helper = "other" THEN {t \in LAUNCHER_CONFIGS : facts[t] = "running"} ELSE {}

\* _detect_launcher, lines 257-307: the LauncherInfo it returns; every
\* installed launcher has two games in its library
_detect_launcher(launcher_type, facts, running_processes) ==
    IF launcher_type \notin LAUNCHER_CONFIGS \/ facts[launcher_type] = "absent"
    THEN [name |-> launcher_type, status |-> "not_installed", is_running |-> FALSE, games_count |-> 0]
    ELSE [name |-> launcher_type, is_running |-> (launcher_type \in running_processes), games_count |-> 2,
          status |-> IF launcher_type \in running_processes THEN "running" ELSE "installed"]

\* GameLauncherResult(), lines 58-67
EmptyDetection ==
    [total_launchers |-> 0, installed_launchers |-> <<>>, not_installed |-> <<>>, running_launchers |-> <<>>,
     total_games |-> 0]

\* the loop of detect_all_launchers, lines 226-245; _detect_launcher raises
\* for the types in raising
RECURSIVE detect_loop(_, _, _, _, _)
detect_loop(types, facts, running_processes, raising, out) ==
    IF types = <<>> THEN out
    ELSE IF Head(types) \in raising
    THEN detect_loop(Tail(types), facts, running_processes, raising,
                     [out EXCEPT !.errors = Append(@, <<"Error detecting ", Head(types)>>)])
    ELSE LET launcher_info == _detect_launcher(Head(types), facts, running_processes)
             counted1 == [out EXCEPT !.result.total_launchers = @ + 1]
             listed == IF launcher_info.status = "installed"
                       THEN [counted1 EXCEPT !.result.installed_launchers = Append(@, launcher_info),
                                             !.result.total_games = @ + launcher_info.games_count,
                                             !.result.running_launchers =
                                                 IF launcher_info.is_running THEN Append(@, launcher_info.name) ELSE @]
                       ELSE IF launcher_info.status = "not_installed"
                       THEN [counted1 EXCEPT !.result.not_installed = Append(@, Head(types))]
                       ELSE counted1
         IN  detect_loop(Tail(types), facts, running_processes, raising, listed)

InitLaunchers ==
    /\ machine \in {m \in [LAUNCHER_CONFIGS -> {"absent", "installed", "running"}] :
                       Cardinality({t \in LAUNCHER_CONFIGS : m[t] # "absent"}) <= MaxInstalled}
    /\ detection = <<>>
    /\ ResultIdle /\ AnalysisIdle /\ AgentIdle /\ WmiIdle /\ RulesIdle /\ DriversIdle /\ ProcessesIdle /\ RunsIdle

\* detect_all_launchers, lines 213-253
DetectAllLaunchers ==
    /\ detection = <<>>
    /\ \E raising \in {{}, {"steam"}, {"riot_client"}}, helper \in {"none", "WMIHelper", "other"} :
         detection' = <<detect_loop(LauncherType, machine, _get_running_processes(machine, helper), raising,
                                    [result |-> EmptyDetection, errors |-> <<>>, helper |-> helper])>>
    /\ UNCHANGED <<machine, resVars, anaVars, agentVars, wmi_self, wmi_call, ruleVars, drvVars, procVars, agent_runs>>

NextLaunchers == DetectAllLaunchers

SpecLaunchers == InitLaunchers /\ [][NextLaunchers]_vars

\* C28: every launcher that detect_all_launchers finds installed and whose
\* process is running is listed in running_launchers and in
\* installed_launchers and has its games counted in total_games, so that
\* more than 3 such launchers make the analysis emit the medium
\* too-many-launchers-running issue.
C28_RunningLaunchersListed ==
    detection # <<>> =>
        LET result == detection[1].result
            detected == {t \in LAUNCHER_CONFIGS : machine[t] = "running" /\ \A e \in 1..Len(detection[1].errors) :
                                                                               detection[1].errors[e][2] # t}
        IN  /\ \A t \in detected :
                  /\ \E i \in 1..Len(result.running_launchers) : result.running_launchers[i] = t
                  /\ \E i \in 1..Len(result.installed_launchers) : result.installed_launchers[i].name = t
            /\ result.total_games >= 2 * Cardinality(detected)
            /\ Cardinality(detected) > 3 =>
                  \E i \in 1..Len(analysis_launchers([BlankSnapshot EXCEPT !.launcher_result = <<result>>])) :
                      analysis_launchers([BlankSnapshot EXCEPT !.launcher_result = <<result>>])[i].severity = "medium"

(***************************************************************************)
(* SpecProcesses: collectors/processes.py.  Process names are sequences    *)
(* of characters, lower-cased by Lower as str.lower() does.                *)
(***************************************************************************)
n_mcshield == <<"m", "c", "s", "h", "i", "e", "l", "d", ".", "e", "x", "e">>
n_discord == <<"d", "i", "s", "c", "o", "r", "d", ".", "e", "x", "e">>
n_creative_cloud == <<" ", "C", "r", "e", "a", "t", "i", "v", "e", " ", "C", "l", "o", "u", "d", ".", "e", "x", "e">>
n_csrss == <<"c", "s", "r", "s", "s", ".", "e", "x", "e">>
n_McShield == <<"M", "c", "S", "h", "i", "e", "l", "d", ".", "e", "x", "e">>
n_Discord == <<"D", "i", "s", "c", "o", "r", "d", ".", "e", "x", "e">>
n_Creative_Cloud == <<"C", "r", "e", "a", "t", "i", "v", "e", " ", "C", "l", "o", "u", "d", ".", "e", "x", "e">>
n_game == <<"g", "a", "m", "e", ".", "e", "x", "e">>

\* BLACKLIST, lines 25-108: four of its entries, the value as the sequence
\* line 125 unpacks; ("") at line 107 is the empty string, of no elements
BLACKLIST ==
    (n_mcshield :> <<"McAfee On-Access Scanner", "High">>) @@
    (n_discord :> <<"Discord", "Medium">>) @@
    (n_creative_cloud :> <<"Adobe Creative Cloud", "Medium">>) @@
    (n_csrss :> <<>>)

\* the loop of check_processes, lines 122-131, from process i on: the issues
\* at its end, or at the exception that lines 132-134 swallow
RECURSIVE check_loop(_, _, _)
check_loop(processes, i, issues) ==
    IF i > Len(processes) THEN issues
    ELSE LET proc == processes[i]
             name == Lower(proc.Name)
         IN  IF name \notin DOMAIN BLACKLIST THEN check_loop(processes, i + 1, issues)
             ELSE IF Len(BLACKLIST[name]) # 2 THEN issues
             ELSE IF BLACKLIST[name][1] # ""
             THEN check_loop(processes, i + 1,
                             Append(issues, [name |-> proc.Name, pid |-> proc.ProcessId,
                                             description |-> BLACKLIST[name][1], impact |-> BLACKLIST[name][2]]))
             ELSE check_loop(processes, i + 1, issues)

\* check_processes, lines 114-136
check_processes(wmi) ==
    IF ~wmi.is_available THEN <<>> ELSE check_loop(wmi.processes, 1, <<>>)

ProcessNames == {n_McShield, n_Discord, n_Creative_Cloud, n_csrss, n_game}

ProcessLists ==
    UNION {[1..n -> ProcessNames] : n \in 0..MaxProcesses}

InitProcesses ==
    /\ \E available \in BOOLEAN, names \in ProcessLists :
         wmi_processes = [is_available |-> available,
                          processes |-> [i \in 1..Len(names) |-> [Name |-> names[i], ProcessId |-> 100 + i]]]
    /\ checked = <<>>
    /\ ResultIdle /\ AnalysisIdle /\ AgentIdle /\ WmiIdle /\ RulesIdle /\ DriversIdle /\ LaunchersIdle /\ RunsIdle

\* check_processes, lines 114-136
CheckProcesses ==
    /\ checked = <<>>
    /\ checked' = <<check_processes(wmi_processes)>>
    /\ UNCHANGED <<wmi_processes, resVars, anaVars, agentVars, wmi_self, wmi_call, ruleVars, drvVars, lchVars, agent_runs>>

NextProcesses == CheckProcesses

SpecProcesses == InitProcesses /\ [][NextProcesses]_vars

\* The running processes whose lower-cased name is a table entry with a
\* description, in the order of the list
RECURSIVE Interferers(_)
Interferers(processes) ==
    IF processes = <<>> THEN <<>>
    ELSE LET name == Lower(Head(processes).Name)
             rest == Interferers(Tail(processes))
         IN  IF name \in DOMAIN BLACKLIST /\ BLACKLIST[name] # <<>> /\ BLACKLIST[name][1] # ""
             THEN <<Head(processes)>> \o rest ELSE rest

\* C29: check_processes returns one ProcessIssue for every running process
\* whose lower-cased name is an entry of the known-interferer table with a
\* description, whatever other processes run and in whatever order the list
\* arrives; an entry without a description is skipped without affecting the
\* other processes.
C29_OneIssuePerInterferer ==
    (checked # <<>> /\ wmi_processes.is_available) =>
        /\ Len(checked[1]) = Len(Interferers(wmi_processes.processes))
        /\ \A i \in 1..Len(checked[1]) :
              /\ checked[1][i].name = Interferers(wmi_processes.processes)[i].Name
              /\ checked[1][i].pid = Interferers(wmi_processes.processes)[i].ProcessId

(***************************************************************************)
(* SpecRuns: one DiagnosticAgent called several times.  A Python list is   *)
(* an object: the snapshot of a result holds a reference to the agent's    *)
(* list, get_errors returns the collector's own list.  Of the collectors'  *)
(* lists the event collector's is modelled; the drivers, launchers and     *)
(* network collectors report no error here.                                *)
(***************************************************************************)
\* the list a reference designates
deref(ref, agent) == IF ref = "self.errors" THEN agent.errors ELSE <<>>

\* what the hardware step appends in one run (lines 245-261) and what the
\* event collector appends to its own list in one run (event_logs.py 168-347)
HardwareRunErrors ==
    {<<>>, <<"Hardware collection timed out.">>, <<"Hardware collection subprocess failed.">>}

EventRunErrors == {<<>>, <<"System event collection error">>}

\* run_full_diagnostic, lines 59-129, as one step: hw and ev are the errors
\* that arise in this run
run_full_diagnostic(agent, hw, ev) ==
    IF ~agent.logging_bound
    THEN \* line 208 raises NameError: nothing is returned
         [agent EXCEPT !.exceptions = @ + 1]
    ELSE [agent EXCEPT
             \* lines 245-261, then line 277: extend by the collector's whole list
             !.errors = (@ \o hw) \o (agent.event_errors \o ev),
             !.event_errors = @ \o ev,
             \* line 103: errors_encountered=self.errors
             !.results = Append(@, [errors_encountered |-> "self.errors", own |-> hw \o ev, run |-> Len(@) + 1])]

InitRuns ==
    /\ \E bound \in BOOLEAN : agent_runs = NewAgent(bound)
    /\ ResultIdle /\ AnalysisIdle /\ AgentIdle /\ WmiIdle /\ RulesIdle /\ DriversIdle /\ LaunchersIdle /\ ProcessesIdle

\* run_full_diagnostic, lines 59-129
RunFullDiagnostic ==
    /\ Len(agent_runs.results) + agent_runs.exceptions < MaxRuns
    /\ \E hw \in HardwareRunErrors, ev \in EventRunErrors :
         agent_runs' = run_full_diagnostic(agent_runs, hw, ev)
    /\ UNCHANGED <<resVars, anaVars, agentVars, wmi_self, wmi_call, ruleVars, drvVars, lchVars, procVars>>

NextRuns == RunFullDiagnostic

SpecRuns == InitRuns /\ [][NextRuns]_vars

\* C23: after any sequence of run_full_diagnostic calls on one agent, the
\* errors_encountered list of each returned result contains exactly the
\* errors of that run: no error of an earlier run appears in a later result
\* and the list of a result already returned is not changed by a later run.
C23_ErrorsOfThatRunOnly ==
    \A i \in 1..Len(agent_runs.results) :
        deref(agent_runs.results[i].errors_encountered, agent_runs) = agent_runs.results[i].own

(***************************************************************************)
(* The output file of the hardware worker, under Spec.                     *)
(***************************************************************************)
\* C30: the temporary output file that the hardware collection step creates
\* for the worker is deleted before the step returns, on every path:
\* success, nonzero worker exit, timeout, and failure to read or deserialize
\* the output.
C30_OutputFileDeleted ==
    hw_step.outcome \in {"ok", "exit_nonzero", "timeout", "bad_output"} => tmp_file = "deleted"

====
